---------------------------- MODULE Spec2Model ----------------------------
(***************************************************************************)
(* Download-and-extraction pipeline of the About Me publisher:             *)
(*   scripts/codio_downloader_images.py  RateLimiter, CodioAPI             *)
(*   scripts/publish_about_me.py         AboutMeDownloader                 *)
(*                                                                         *)
(* Time is measured in abstract ticks.  time.time() is the variable clock, *)
(* which never goes back and may return the same value twice in a row.     *)
(* time.sleep(d) started at clock = c lets the sleeper continue at any     *)
(* clock >= c + d.  The 0.1 s safety margin of the burst sleep is one      *)
(* tick; the configured durations are scaled to a few ticks.               *)
(***************************************************************************)
EXTENDS Integers, Sequences, FiniteSets, TLC

\* ------------------------------------------------------------------------
\* Configuration (Config, lines 42-58), scaled
\* ------------------------------------------------------------------------
\* Config.BURST_RATE_LIMIT (50 requests)
BURST_RATE_LIMIT == 2
\* Config.BURST_WINDOW (10 s)
BURST_WINDOW == 2
\* Config.DAILY_LIMIT (10000 requests)
DAILY_LIMIT == 3
\* the 86400 s of RateLimiter (24 h)
DAY == 4
\* the "+ 0.1" of the burst sleep: the smallest positive duration
SLEEP_MARGIN == 1

\* token lifetime as stored: 3600 s - Config.TOKEN_EXPIRY_BUFFER (300 s)
TOKEN_LIFE == 4
\* Config.MAX_RETRIES: attempts of one request() call (stop_after_attempt)
MAX_RETRIES == 5
\* stop_after_attempt(3) of authenticate()
AUTH_ATTEMPTS == 3
\* least wait of wait_exponential(min=4) between two attempts
RETRY_WAIT == 1
\* the Retry-After delay of a 429 response
RETRY_AFTER == 1
\* the sleep when a 429 answer has no Retry-After header (10 s)
RETRY_AFTER_DEFAULT == 2

\* the clock stops at MaxTime; at most MaxCalls calls of wait_if_needed start,
\* at most MaxReqs calls of request() and at most MaxExchanges credential
\* exchanges succeed
MaxTime == 6
MaxCalls == 5
MaxReqs == 2
MaxExchanges == 3
\* at most MaxFaults exchanges or calls fail (a raised error or a status
\* other than 200)
MaxFaults == 5
\* the same limits where several threads run
MaxTimeConc == 4
\* the last clock value where calls are followed to their end
MaxTimeFair == 5
\* the horizon and the number of request() calls of a client of either mode
MaxTimeDry == 5
MaxReqsDry == 3
MaxFaultsConc == 2

\* PublishConfig.max_concurrency (default 8): width of the worker pool
MAX_CONCURRENCY == 2
\* stop_after_attempt(3) of download_student_project
JOB_ATTEMPTS == 3
\* at most MaxJobs jobs are enqueued; an archive has at most MaxMembers members
MaxJobs == 3
MaxMembers == 3
\* an archive handed to _extract_assignment has at most MaxAssignMembers members
MaxAssignMembers == 2

\* max_wait of _wait_download_task (300 s) and its sleep between polls (0.5 s)
MAX_WAIT == 3
POLL_SLEEP == 1
\* one request() call of a poll takes at most MaxRequestTime; the clock of a
\* polling run stops at MaxPollClock
MaxRequestTime == 2
MaxPollClock == 6

\* configured sections, assignments of a course, students of a roster
MaxSections == 2
MaxAssignments == 2
MaxRoster == 2

\* the tokens (words and blanks) of a full name
MaxNameTokens == 4

\* the worker threads that may share one CodioAPI and its RateLimiter
Workers == {"w1", "w2"}

VARIABLES
    clock,             \* time.time()
    active,            \* the threads that run in this specification
    pc,                \* pc[t]: where thread t stands
    now,               \* now[t]: the local variable now of wait_if_needed
    wake,              \* wake[t]: earliest clock at which t's sleep returns
    ncalls,            \* number of wait_if_needed calls started
    request_times,     \* RateLimiter.request_times (deque, oldest first)
    daily_count,       \* RateLimiter.daily_count
    daily_reset_time,  \* RateLimiter.daily_reset_time
    dispatched,        \* history: timestamps recorded within the trailing window
    resets,            \* history: number of daily resets performed
    access_token,      \* CodioAPI.access_token: 0 is None, n the n-th exchange's token
    token_expiry,      \* CodioAPI.token_expiry
    expiry_src,        \* history: the exchange that set token_expiry
    nexch,             \* number of successful credential exchanges
    nreqs,             \* number of request() calls started
    loc,               \* loc[t]: the locals of t's request()/authenticate() frames
    lateUse,           \* history: a bearer call was sent at clock >= token_expiry
    faults,            \* number of failed exchanges and calls so far
    bound,             \* the limits of this specification: [time, reqs, faults]
    dry_run,           \* CodioAPI.dry_run
    all_tasks,         \* download_all_students: the enqueued (section, student) jobs
    jpc,               \* jpc[i]: where job i (one future) stands
    jtry,              \* jtry[i]: attempt number of download_student_project
    jres,              \* jres[i]: the dict job i returned
    raisedIn,          \* history: the step of job i that raised
    nopage,            \* history: the jobs whose extracted tree has no entry page
    results,           \* download_all_students: results
    collected,         \* the futures the as_completed loop has consumed
    manifest,          \* manifest.json: the list written (empty until then)
    mainpc,            \* where download_all_students stands
    archive,           \* the members of the tar being extracted, in order
    mi,                \* index of the next member
    written,           \* the paths of the files extraction has written
    hard,              \* the hard links extraction has made: [at, to] share a file
    extraction_filter, \* the tarfile default filter of the interpreter that runs
    links,             \* the symbolic links extraction has created
    warned,            \* members logged as unsafe paths
    extracted,         \* members tar.extract() has materialized
    failed,            \* members whose tar.extract() raised
    rpath,             \* history: rpath[k], where member k's path resolved
    expc,              \* where _extract_tar_inclusive stands
    prior,             \* dest_dir before _extract_assignment: [exists, files]
    stale,             \* the files of prior.files that are still in dest_dir
    eapc,              \* where _extract_assignment stands
    temp_file,         \* download_student_assignment: temp_file (.zst) is on disk
    tar_file,          \* _extract_assignment: tar_file (.tar) is on disk
    ppc,               \* where _wait_download_task stands
    start_time,        \* _wait_download_task: start_time
    poll_result,       \* _wait_download_task: result, the last answer polled
    poll_outcome,      \* how _wait_download_task ended
    npolls,            \* history: number of polls made
    sections,          \* config.sections, in the order of its items()
    dpc,               \* where the discovery loop of download_all_students stands
    dsec,              \* index of the section the loop is at
    course,            \* download_all_students: course
    assignment,        \* download_all_students: assignment
    dlog,              \* history: what happened to each section processed
    config_exclude_globs, \* PublishConfig.exclude_globs of the run
    exclude_globs,     \* _extract_tar_inclusive: exclude_globs after lines 373-374
    fpc,               \* which function of publish_about_me.py is applied
    full_name,         \* parse_display_name: full_name
    display_name,      \* parse_display_name: the value returned
    project_dir,       \* find_entry_page: the files of project_dir
    listing,           \* find_entry_page: the order in which iterdir lists names
    entry_page_result, \* find_entry_page: the value returned
    enqueued,          \* the (section, student) tasks whose paths are computed
    job_paths          \* per task: student_dir, temp_file and tar_file of its job

rlVars == <<request_times, daily_count, daily_reset_time, dispatched, resets>>
thVars == <<pc, now, wake, ncalls>>
apiVars == <<access_token, token_expiry, expiry_src, nexch, nreqs, loc, lateUse, faults>>
vars == <<clock, active, pc, now, wake, ncalls, request_times, daily_count,
          daily_reset_time, dispatched, resets, access_token, token_expiry,
          expiry_src, nexch, nreqs, loc, lateUse, faults, bound, dry_run,
          all_tasks, jpc, jtry, jres, raisedIn, nopage, results, collected, manifest,
          mainpc,
          archive, mi, written, links, hard, extraction_filter, warned, extracted,
          failed, rpath, expc, prior, stale, eapc, temp_file, tar_file,
          config_exclude_globs, exclude_globs,
          ppc, start_time, poll_result, poll_outcome, npolls,
          sections, dpc, dsec, course, assignment, dlog,
          fpc, full_name, display_name, project_dir, listing, entry_page_result,
          enqueued, job_paths>>
\* the orchestrator's and the extractor's state
jobVars == <<all_tasks, jpc, jtry, jres, raisedIn, nopage, results, collected, manifest,
            mainpc>>
exVars == <<archive, mi, written, links, hard, extraction_filter, warned, extracted,
           failed, rpath, expc>>
\* what the API client never touches, and what the rate limiter never touches
\* the state of _extract_assignment around the extraction
asVars == <<prior, stale, eapc, temp_file, tar_file, config_exclude_globs, exclude_globs>>
\* the state of the operations modelled on their own
\* the state of _wait_download_task
pollVars == <<ppc, start_time, poll_result, poll_outcome, npolls>>
\* the state of the discovery loop of download_all_students
discVars == <<sections, dpc, dsec, course, assignment, dlog>>
\* the argument and the value of the functions applied on their own
pureVars == <<fpc, full_name, display_name, project_dir, listing, entry_page_result,
             enqueued, job_paths>>
auxVars == <<asVars, pollVars, discVars, pureVars>>
\* what the constructor of the client fixes
cfgVars == <<dry_run>>
frame == <<bound, cfgVars, jobVars, exVars, auxVars>>
notRL == <<apiVars, frame>>
\* the API client's and the rate limiter's state
svcVars == <<clock, active, thVars, rlVars, apiVars, bound, cfgVars>>

\* ------------------------------------------------------------------------
\* helpers
\* ------------------------------------------------------------------------
Tail2(s) == IF Len(s) = 0 THEN s ELSE Tail(s)

\* the timestamps of s that lie in the closed window [t - BURST_WINDOW, t]
InWindow(s, t) == SelectSeq(s, LAMBDA x : x >= t - BURST_WINDOW /\ x <= t)

\* ------------------------------------------------------------------------
\* RateLimiter.__init__ (lines 68-79)
\* ------------------------------------------------------------------------
RateLimiterInit ==
    /\ request_times = << >>
    /\ daily_count = 0
    /\ daily_reset_time = clock + DAY
    /\ dispatched = << >>
    /\ resets = 0

\* the locals of a thread outside request()
LocInit == [inReq |-> FALSE, attempt |-> 0, authTry |-> 0, authRet |-> "none",
            tok |-> 0, status |-> 0, sawExpired |-> FALSE,
            authInv |-> 0, result |-> "none",
            nwait |-> 0, nsend |-> 0, retry_after |-> "none",
            authRaised |-> FALSE, stream |-> FALSE]

\* CodioAPI.__init__ (lines 133-146), dry_run = False: the constructor has
\* authenticated once (exchange 1) at clock 0
ApiInit ==
    /\ dry_run = FALSE
    /\ access_token = 1
    /\ token_expiry = clock + TOKEN_LIFE
    /\ expiry_src = 1
    /\ nexch = 1
    /\ nreqs = 0
    /\ loc = [t \in Workers |-> LocInit]
    /\ lateUse = FALSE
    /\ faults = 0

\* CodioAPI.__init__ (lines 133-146), dry_run = True: no authenticate();
\* access_token is None (0) and token_expiry is 0
DryApiInit ==
    /\ dry_run = TRUE
    /\ access_token = 0
    /\ token_expiry = 0
    /\ expiry_src = 0
    /\ nexch = 0
    /\ nreqs = 0
    /\ loc = [t \in Workers |-> LocInit]
    /\ lateUse = FALSE
    /\ faults = 0

Limits(time, reqs, nfaults) == [time |-> time, reqs |-> reqs, faults |-> nfaults]

ThreadsInit(ts, b) ==
    /\ clock = 0
    /\ bound = b
    /\ active = ts
    /\ pc = [t \in Workers |-> "idle"]
    /\ now = [t \in Workers |-> 0]
    /\ wake = [t \in Workers |-> 0]
    /\ ncalls = 0

\* ------------------------------------------------------------------------
\* the clock
\* ------------------------------------------------------------------------
Tick ==
    /\ clock < bound.time
    /\ clock' = clock + 1
    /\ dispatched' = SelectSeq(dispatched, LAMBDA x : x >= clock + 1 - BURST_WINDOW)
    /\ UNCHANGED <<active, thVars, request_times, daily_count, daily_reset_time, resets,
                   notRL>>

\* where a thread goes when wait_if_needed returns: back into request()
\* (line 199) or to its direct caller
AfterWait(t) == IF loc[t].inReq THEN "req_send" ELSE "idle"

\* where an exception raised inside wait_if_needed lands
RLRaise(t) == IF loc[t].inReq THEN "req_failed" ELSE "rl_raised"

\* ------------------------------------------------------------------------
\* RateLimiter.wait_if_needed (lines 81-123)
\* ------------------------------------------------------------------------
\* a caller enters wait_if_needed()
RLCall(t) ==
    /\ pc[t] = "idle"
    /\ ncalls < MaxCalls
    /\ ncalls' = ncalls + 1
    /\ pc' = [pc EXCEPT ![t] = "rl_enter"]
    /\ UNCHANGED <<clock, active, now, wake, rlVars, notRL>>

\* lines 83-89: now = time.time(); reset the daily counter if the instant passed
RLEnter(t) ==
    /\ pc[t] = "rl_enter"
    /\ now' = [now EXCEPT ![t] = clock]
    /\ IF clock >= daily_reset_time
         THEN /\ daily_count' = 0
              /\ daily_reset_time' = clock + DAY
              /\ resets' = resets + 1
         ELSE UNCHANGED <<daily_count, daily_reset_time, resets>>
    /\ pc' = [pc EXCEPT ![t] = "rl_daily"]
    /\ UNCHANGED <<clock, active, wake, ncalls, request_times, dispatched, notRL>>

DailyLimitReachedLate(count) == count > DAILY_LIMIT

\* line 92: self.daily_count >= self.daily_limit
DailyLimitReached(count) == count >= DAILY_LIMIT

\* lines 92-98: the daily limit; sleep until the reset instant
RLDaily(t) ==
    /\ pc[t] = "rl_daily"
    /\ IF DailyLimitReached(daily_count)
         THEN /\ wake' = [wake EXCEPT ![t] = clock + (daily_reset_time - now[t])]
              /\ pc' = [pc EXCEPT ![t] = "rl_daily_sleep"]
         ELSE /\ pc' = [pc EXCEPT ![t] = "rl_prune"]
              /\ UNCHANGED wake
    /\ UNCHANGED <<clock, active, now, ncalls, rlVars, notRL>>

\* lines 99-100: after the sleep, count = 0 and reset instant = time.time() + 86400
RLDailyWake(t) ==
    /\ pc[t] = "rl_daily_sleep"
    /\ clock >= wake[t]
    /\ wake' = [wake EXCEPT ![t] = 0]
    /\ daily_count' = 0
    /\ daily_reset_time' = clock + DAY
    /\ resets' = resets + 1
    /\ pc' = [pc EXCEPT ![t] = "rl_prune"]
    /\ UNCHANGED <<clock, active, now, ncalls, request_times, dispatched, notRL>>

\* lines 103-105 and 117-119: one evaluation of the while condition
PruneTest(t, loop, pop, exit) ==
    /\ pc[t] = loop
    /\ IF Len(request_times) > 0 /\ request_times[1] < now[t] - BURST_WINDOW
         THEN pc' = [pc EXCEPT ![t] = pop]
         ELSE pc' = [pc EXCEPT ![t] = exit]
    /\ UNCHANGED <<clock, active, now, wake, ncalls, rlVars, notRL>>

\* lines 105 and 119: popleft(); IndexError on an empty deque
PrunePop(t, loop, pop) ==
    /\ pc[t] = pop
    /\ IF Len(request_times) = 0
         THEN /\ pc' = [pc EXCEPT ![t] = RLRaise(t)]
              /\ UNCHANGED request_times
         ELSE /\ request_times' = Tail(request_times)
              /\ pc' = [pc EXCEPT ![t] = loop]
    /\ UNCHANGED <<clock, active, now, wake, ncalls, daily_count, daily_reset_time,
                   dispatched, resets, notRL>>

RLPrune(t) == PruneTest(t, "rl_prune", "rl_pop", "rl_check")
RLPop(t) == PrunePop(t, "rl_prune", "rl_pop")

\* line 108: the burst limit
RLCheck(t) ==
    /\ pc[t] = "rl_check"
    /\ IF Len(request_times) >= BURST_RATE_LIMIT
         THEN pc' = [pc EXCEPT ![t] = "rl_wait"]
         ELSE pc' = [pc EXCEPT ![t] = "rl_record"]
    /\ UNCHANGED <<clock, active, now, wake, ncalls, rlVars, notRL>>

\* the guard of line 110
MustWait(wait_time) == wait_time > 0

\* lines 109-114: wait_time = request_times[0] + window - now; sleep(wait_time + 0.1)
RLWait(t) ==
    /\ pc[t] = "rl_wait"
    /\ IF Len(request_times) = 0
         THEN /\ pc' = [pc EXCEPT ![t] = RLRaise(t)]
              /\ UNCHANGED wake
         ELSE LET wait_time == request_times[1] + BURST_WINDOW - now[t]
              IN  IF MustWait(wait_time)
                    THEN /\ wake' = [wake EXCEPT ![t] = clock + wait_time + SLEEP_MARGIN]
                         /\ pc' = [pc EXCEPT ![t] = "rl_burst_sleep"]
                    ELSE /\ pc' = [pc EXCEPT ![t] = "rl_record"]
                         /\ UNCHANGED wake
    /\ UNCHANGED <<clock, active, now, ncalls, rlVars, notRL>>

\* line 116: now = time.time() after the sleep
RLBurstWake(t) ==
    /\ pc[t] = "rl_burst_sleep"
    /\ clock >= wake[t]
    /\ now' = [now EXCEPT ![t] = clock]
    /\ wake' = [wake EXCEPT ![t] = 0]
    /\ pc' = [pc EXCEPT ![t] = "rl_prune2"]
    /\ UNCHANGED <<clock, active, ncalls, rlVars, notRL>>

RLPrune2(t) == PruneTest(t, "rl_prune2", "rl_pop2", "rl_record")
RLPop2(t) == PrunePop(t, "rl_prune2", "rl_pop2")

\* lines 122-123: request_times.append(time.time()); daily_count += 1
RLRecord(t) ==
    /\ pc[t] = "rl_record"
    /\ request_times' = Append(request_times, clock)
    /\ daily_count' = daily_count + 1
    /\ dispatched' = Append(dispatched, clock)
    /\ now' = [now EXCEPT ![t] = 0]
    /\ loc' = [loc EXCEPT ![t].nwait = IF loc[t].inReq THEN @ + 1 ELSE @]
    /\ pc' = [pc EXCEPT ![t] = AfterWait(t)]
    /\ UNCHANGED <<clock, active, wake, ncalls, daily_reset_time, resets, access_token,
                   token_expiry, expiry_src, nexch, nreqs, lateUse, faults, frame>>

\* ------------------------------------------------------------------------
\* CodioAPI.authenticate (lines 148-179) and _ensure_authenticated (181-185)
\* ------------------------------------------------------------------------
TokenExpiredLate(t) == t > token_expiry

\* line 183: time.time() >= self.token_expiry
TokenExpired(t) == t >= token_expiry

\* the locals of a frame that invokes authenticate() and continues at ret
CallAuth(l, ret) ==
    [l EXCEPT !.authTry = 1, !.authRet = ret, !.authInv = @ + 1]

AuthGivesUpLate(try) == try > AUTH_ATTEMPTS

\* line 148: stop_after_attempt(3)
AuthGivesUp(try) == try >= AUTH_ATTEMPTS

\* lines 163-170: one credential exchange; it succeeds or raises.  A failed
\* exchange is retried after a wait, the third failure propagates.  The
\* history field authRaised tells that the last authenticate() of the
\* request() call raised.  In dry-run mode authenticate() returns at once
\* (lines 151-153).
AuthGet(t) ==
    /\ pc[t] = "auth_get"
    /\ \E ok \in BOOLEAN :
         IF dry_run
           THEN /\ ok
                /\ pc' = [pc EXCEPT ![t] = loc[t].authRet]
                /\ UNCHANGED <<loc, wake, nexch, faults>>
         ELSE IF ok
           THEN /\ nexch < MaxExchanges
                /\ nexch' = nexch + 1
                /\ loc' = [loc EXCEPT ![t].tok = nexch + 1, ![t].authRaised = FALSE]
                /\ pc' = [pc EXCEPT ![t] = "auth_store_token"]
                /\ UNCHANGED <<wake, faults>>
           ELSE /\ faults < bound.faults
                /\ faults' = faults + 1
                /\ UNCHANGED nexch
                /\ IF AuthGivesUp(loc[t].authTry)
                     THEN /\ pc' = [pc EXCEPT ![t] = "req_failed"]
                          /\ loc' = [loc EXCEPT ![t].authRaised = TRUE]
                          /\ UNCHANGED wake
                     ELSE /\ loc' = [loc EXCEPT ![t].authTry = @ + 1]
                          /\ wake' = [wake EXCEPT ![t] = clock + RETRY_WAIT]
                          /\ pc' = [pc EXCEPT ![t] = "auth_backoff"]
    /\ UNCHANGED <<clock, active, now, ncalls, rlVars, access_token, token_expiry,
                   expiry_src, nreqs, lateUse, frame>>

AuthBackoffWake(t) ==
    /\ pc[t] = "auth_backoff"
    /\ clock >= wake[t]
    /\ wake' = [wake EXCEPT ![t] = 0]
    /\ pc' = [pc EXCEPT ![t] = "auth_get"]
    /\ UNCHANGED <<clock, active, now, ncalls, rlVars, apiVars, frame>>

AuthStoreTokenOnly(t) ==
    /\ pc[t] = "auth_store_token"
    /\ access_token' = loc[t].tok
    /\ pc' = [pc EXCEPT ![t] = loc[t].authRet]
    /\ UNCHANGED <<clock, active, now, wake, ncalls, rlVars, token_expiry, expiry_src,
                   nexch, nreqs, loc, lateUse, faults, frame>>

\* line 172: self.access_token = data['access_token']
AuthStoreToken(t) ==
    /\ pc[t] = "auth_store_token"
    /\ access_token' = loc[t].tok
    /\ pc' = [pc EXCEPT ![t] = "auth_store_expiry"]
    /\ UNCHANGED <<clock, active, now, wake, ncalls, rlVars, token_expiry, expiry_src,
                   nexch, nreqs, loc, lateUse, faults, frame>>

\* line 174: self.token_expiry = time.time() + 3600 - TOKEN_EXPIRY_BUFFER
AuthStoreExpiry(t) ==
    /\ pc[t] = "auth_store_expiry"
    /\ token_expiry' = clock + TOKEN_LIFE
    /\ expiry_src' = loc[t].tok
    /\ pc' = [pc EXCEPT ![t] = loc[t].authRet]
    /\ UNCHANGED <<clock, active, now, wake, ncalls, rlVars, access_token, nexch,
                   nreqs, loc, lateUse, faults, frame>>

\* ------------------------------------------------------------------------
\* CodioAPI.request (lines 187-239), dry_run = False
\* ------------------------------------------------------------------------
\* what session.request answers: a status, or 0 when it raises
Responses == {0, 200, 401, 429, 500}

\* the Retry-After header of a 429 answer: absent, a number of seconds, or an
\* HTTP date
RetryAfterHeaders == {"absent", "seconds", "date"}

ShortCircuitsNever(dry) == FALSE

\* line 191: if self.dry_run
ShortCircuits(dry) == dry

\* line 193: return {} if not stream else None
DryResult(stream) == IF stream THEN "None" ELSE "{}"

\* a caller enters request(): in dry-run mode it returns at once (lines
\* 191-193), otherwise this is the first attempt
ReqCall(t) ==
    /\ pc[t] = "idle"
    /\ nreqs < bound.reqs
    /\ nreqs' = nreqs + 1
    /\ IF ShortCircuits(dry_run)
         THEN /\ \E stream \in BOOLEAN :
                   loc' = [loc EXCEPT ![t] = [LocInit EXCEPT !.stream = stream,
                                                             !.result = DryResult(stream)]]
              /\ UNCHANGED pc
         ELSE /\ loc' = [loc EXCEPT ![t] = [LocInit EXCEPT !.inReq = TRUE, !.attempt = 1]]
              /\ pc' = [pc EXCEPT ![t] = "req_ensure"]
    /\ UNCHANGED <<clock, active, now, wake, ncalls, rlVars, access_token, token_expiry,
                   expiry_src, nexch, lateUse, faults, frame>>

\* line 196: self._ensure_authenticated()
ReqEnsure(t) ==
    /\ pc[t] = "req_ensure"
    /\ IF TokenExpired(clock)
         THEN /\ loc' = [loc EXCEPT ![t] = [CallAuth(@, "rl_enter") EXCEPT
                                               !.sawExpired = (clock >= token_expiry)]]
              /\ pc' = [pc EXCEPT ![t] = "auth_get"]
         ELSE /\ loc' = [loc EXCEPT ![t].sawExpired = (clock >= token_expiry)]
              /\ pc' = [pc EXCEPT ![t] = "rl_enter"]
    /\ UNCHANGED <<clock, active, now, wake, ncalls, rlVars, access_token, token_expiry,
                   expiry_src, nexch, nreqs, lateUse, faults, frame>>

\* lines 199-210 and 216-225: build the bearer header and send the call
SendCall(t, from, to) ==
    /\ pc[t] = from
    /\ \E st \in Responses :
         /\ st # 200 => faults < bound.faults
         /\ faults' = IF st # 200 THEN faults + 1 ELSE faults
         /\ \E header \in RetryAfterHeaders :
              /\ st # 429 => header = "absent"
              /\ loc' = [loc EXCEPT ![t].status = st, ![t].nsend = @ + 1,
                                    ![t].retry_after = IF st = 429 THEN header ELSE "none"]
         /\ pc' = [pc EXCEPT ![t] = IF st = 0 THEN "req_failed" ELSE to]
    /\ lateUse' = (lateUse \/ clock >= token_expiry)
    /\ UNCHANGED <<clock, active, now, wake, ncalls, rlVars, access_token, token_expiry,
                   expiry_src, nexch, nreqs, frame>>

ReqSend(t) == SendCall(t, "req_send", "req_resp")

\* lines 213-215: a 401 re-authenticates
ReqResp(t) ==
    /\ pc[t] = "req_resp"
    /\ IF loc[t].status = 401
         THEN /\ loc' = [loc EXCEPT ![t] = CallAuth(@, "req_resend")]
              /\ pc' = [pc EXCEPT ![t] = "auth_get"]
         ELSE /\ pc' = [pc EXCEPT ![t] = "req_after"]
              /\ UNCHANGED loc
    /\ UNCHANGED <<clock, active, now, wake, ncalls, rlVars, access_token, token_expiry,
                   expiry_src, nexch, nreqs, lateUse, faults, frame>>

AfterResendChecks401 == "req_resp"

\* lines 227-234: after the re-send, the 429 check and raise_for_status
AfterResend == "req_after"

ReqResend(t) == SendCall(t, "req_resend", AfterResend)

\* line 229: int(response.headers.get('Retry-After', 10))
RetryAfterSeconds(header) ==
    IF header = "absent" THEN RETRY_AFTER_DEFAULT ELSE RETRY_AFTER

\* line 229: int() of a header that is not a decimal integer raises ValueError
IntRaises(header) == header = "date"

\* lines 228-239: 429 sleeps and raises, raise_for_status, the result
ReqAfter(t) ==
    /\ pc[t] = "req_after"
    /\ IF loc[t].status = 429
         THEN IF IntRaises(loc[t].retry_after)
                THEN /\ pc' = [pc EXCEPT ![t] = "req_failed"]
                     /\ UNCHANGED <<loc, wake>>
                ELSE /\ wake' = [wake EXCEPT ![t] =
                                    clock + RetryAfterSeconds(loc[t].retry_after)]
                     /\ pc' = [pc EXCEPT ![t] = "req_429_sleep"]
                     /\ UNCHANGED loc
         ELSE IF loc[t].status = 200
           THEN /\ pc' = [pc EXCEPT ![t] = "idle"]
                /\ loc' = [loc EXCEPT ![t] = [LocInit EXCEPT !.result = "ok"]]
                /\ UNCHANGED wake
           ELSE /\ pc' = [pc EXCEPT ![t] = "req_failed"]
                /\ UNCHANGED <<loc, wake>>
    /\ UNCHANGED <<clock, active, now, ncalls, rlVars, access_token, token_expiry,
                   expiry_src, nexch, nreqs, lateUse, faults, frame>>

\* line 232: after the sleep, raise RequestException
Req429Wake(t) ==
    /\ pc[t] = "req_429_sleep"
    /\ clock >= wake[t]
    /\ wake' = [wake EXCEPT ![t] = 0]
    /\ pc' = [pc EXCEPT ![t] = "req_failed"]
    /\ UNCHANGED <<clock, active, now, ncalls, rlVars, apiVars, frame>>

AttemptsExhaustedAtOnce(attempt) == attempt >= 1

\* line 187: stop_after_attempt(Config.MAX_RETRIES)
AttemptsExhausted(attempt) == attempt >= MAX_RETRIES

\* lines 187-188: the attempt raised; retry after a wait, or give up
ReqFailed(t) ==
    /\ pc[t] = "req_failed"
    /\ IF AttemptsExhausted(loc[t].attempt)
         THEN /\ pc' = [pc EXCEPT ![t] = "idle"]
              /\ loc' = [loc EXCEPT ![t] = [LocInit EXCEPT !.result = "error"]]
              /\ UNCHANGED wake
         ELSE /\ wake' = [wake EXCEPT ![t] = clock + RETRY_WAIT]
              /\ pc' = [pc EXCEPT ![t] = "req_backoff"]
              /\ UNCHANGED loc
    /\ UNCHANGED <<clock, active, now, ncalls, rlVars, access_token, token_expiry,
                   expiry_src, nexch, nreqs, lateUse, faults, frame>>

\* the next attempt runs request() again from its first line
ReqBackoffWake(t) ==
    /\ pc[t] = "req_backoff"
    /\ clock >= wake[t]
    /\ loc' = [loc EXCEPT ![t] = [LocInit EXCEPT !.inReq = TRUE,
                                                 !.attempt = loc[t].attempt + 1,
                                                 !.authRaised = loc[t].authRaised]]
    /\ wake' = [wake EXCEPT ![t] = 0]
    /\ pc' = [pc EXCEPT ![t] = "req_ensure"]
    /\ UNCHANGED <<clock, active, now, ncalls, rlVars, access_token, token_expiry,
                   expiry_src, nexch, nreqs, lateUse, faults, frame>>

\* ------------------------------------------------------------------------
\* AboutMeDownloader (publish_about_me.py, lines 244-422)
\* ------------------------------------------------------------------------
NULL == "null"

\* the student records get_students may return (lines 384-389): name, id and
\* the student directory build_dir/section/slug the job derives (lines 268-277);
\* the record of Cy carries no 'id' key
Students ==
    { [name |-> "Ann Lee", has_id |-> TRUE, id |-> 1, dir |-> "build/A/ann"],
      [name |-> "Bo Chen", has_id |-> TRUE, id |-> 2, dir |-> "build/A/bo"],
      [name |-> "Cy Diaz", has_id |-> FALSE, id |-> 0, dir |-> "build/A/cy"] }

SeqsUpTo(S, n) == UNION { [1..k -> S] : k \in 0..n }

Jobs == 1..Len(all_tasks)

NoResult == [job |-> 0]

\* lines 398-403: every task has been submitted to the pool; nothing runs yet
JobsInit(tasks) ==
    /\ all_tasks = tasks
    /\ jpc = [i \in 1..Len(tasks) |-> "pending"]
    /\ jtry = [i \in 1..Len(tasks) |-> 0]
    /\ jres = [i \in 1..Len(tasks) |-> NoResult]
    /\ raisedIn = [i \in 1..Len(tasks) |-> "none"]
    /\ nopage = {}
    /\ results = << >>
    /\ collected = {}
    /\ manifest = << >>
    /\ mainpc = "collecting"

Running == { i \in Jobs : jpc[i] \in {"preamble", "downloading", "extracting", "finding"} }

\* a worker of the pool takes a pending job (line 399: max_workers)
JobStart(i) ==
    /\ jpc[i] = "pending"
    /\ Cardinality(Running) < MAX_CONCURRENCY
    /\ jpc' = [jpc EXCEPT ![i] = "preamble"]
    /\ jtry' = [jtry EXCEPT ![i] = 1]
    /\ UNCHANGED <<all_tasks, nopage, jres, raisedIn, results, collected, manifest, mainpc,
                   svcVars, exVars, auxVars>>

\* lines 264-265: student['name'], student['id'] raise KeyError on a record
\* without the key
PreambleRaises(student) == ~student.has_id

\* lines 261-279: the statements before the try block; what they raise leaves
\* the function, and the retry decorator runs it again up to JOB_ATTEMPTS times
JobPreamble(i) ==
    /\ jpc[i] = "preamble"
    /\ IF PreambleRaises(all_tasks[i])
         THEN IF jtry[i] >= JOB_ATTEMPTS
                THEN /\ jpc' = [jpc EXCEPT ![i] = "raised"]
                     /\ raisedIn' = [raisedIn EXCEPT ![i] = "preamble"]
                     /\ UNCHANGED jtry
                ELSE /\ jtry' = [jtry EXCEPT ![i] = @ + 1]
                     /\ UNCHANGED <<jpc, raisedIn>>
         ELSE /\ jpc' = [jpc EXCEPT ![i] = "downloading"]
              /\ UNCHANGED <<jtry, raisedIn>>
    /\ UNCHANGED <<all_tasks, nopage, jres, results, collected, manifest, mainpc, svcVars, exVars, auxVars>>

FailedMetaKeepsPath(i) ==
    [job |-> i, full_name |-> all_tasks[i].name, codio_id |-> all_tasks[i].id,
     local_path |-> all_tasks[i].dir, entry_page |-> NULL, warnings |-> << >>,
     errors |-> << "Failed to download" >>]

\* lines 329-343: the dict the except branch returns
FailedMeta(i) ==
    [job |-> i, full_name |-> all_tasks[i].name, codio_id |-> all_tasks[i].id,
     local_path |-> NULL, entry_page |-> NULL, warnings |-> << >>,
     errors |-> << "Failed to download" >>]

StudentMetaNoWarning(i, entry) ==
    [job |-> i, full_name |-> all_tasks[i].name, codio_id |-> all_tasks[i].id,
     local_path |-> all_tasks[i].dir, entry_page |-> entry, warnings |-> << >>]

\* lines 294-323: the dict of a job whose download and extraction returned
StudentMeta(i, entry) ==
    [job |-> i, full_name |-> all_tasks[i].name, codio_id |-> all_tasks[i].id,
     local_path |-> all_tasks[i].dir, entry_page |-> entry,
     warnings |-> IF entry = NULL THEN << "No index.html or entry page found" >>
                  ELSE << >>]

\* lines 325-343: except Exception returns the failed dict
JobFails(i, step) ==
    /\ jpc' = [jpc EXCEPT ![i] = "failed"]
    /\ jres' = [jres EXCEPT ![i] = FailedMeta(i)]
    /\ raisedIn' = [raisedIn EXCEPT ![i] = step]

\* lines 283-291 and download_student_assignment lines 276-280: clean the
\* directory, export, poll and download the archive; it returns or raises
JobDownload(i) ==
    /\ jpc[i] = "downloading"
    /\ \E ok \in BOOLEAN :
         IF ok THEN /\ jpc' = [jpc EXCEPT ![i] = "extracting"]
                    /\ UNCHANGED <<jres, raisedIn>>
               ELSE JobFails(i, "download")
    /\ UNCHANGED <<all_tasks, nopage, jtry, results, collected, manifest, mainpc, svcVars, exVars, auxVars>>

\* download_student_assignment lines 283-287: extract; it returns or raises
JobExtract(i) ==
    /\ jpc[i] = "extracting"
    /\ \E ok \in BOOLEAN :
         IF ok THEN /\ jpc' = [jpc EXCEPT ![i] = "finding"]
                    /\ UNCHANGED <<jres, raisedIn>>
               ELSE JobFails(i, "extract")
    /\ UNCHANGED <<all_tasks, nopage, jtry, results, collected, manifest, mainpc, svcVars, exVars, auxVars>>

\* lines 294-323: the extracted tree has an entry page or none;
\* find_entry_page returns accordingly and the dict is returned, or
\* find_entry_page (iterdir on a directory that cannot be read) or
\* relative_to (line 316) raises
JobFind(i) ==
    /\ jpc[i] = "finding"
    /\ \E entry \in {"index.html", NULL} : \E raises \in BOOLEAN :
         /\ nopage' = IF entry = NULL THEN nopage \cup {i} ELSE nopage
         /\ IF raises
              THEN JobFails(i, "entry")
              ELSE /\ jres' = [jres EXCEPT ![i] = StudentMeta(i, entry)]
                   /\ jpc' = [jpc EXCEPT ![i] = "completed"]
                   /\ UNCHANGED raisedIn
    /\ UNCHANGED <<all_tasks, jtry, results, collected, manifest, mainpc, svcVars, exVars, auxVars>>

\* lines 406-414: the as_completed loop takes a finished future; a result is
\* appended, an exception is logged
Collect(i) ==
    /\ mainpc = "collecting"
    /\ i \notin collected
    /\ jpc[i] \in {"completed", "failed", "raised"}
    /\ results' = IF jpc[i] = "raised" THEN results ELSE Append(results, jres[i])
    /\ collected' = collected \cup {i}
    /\ UNCHANGED <<all_tasks, nopage, jpc, jtry, jres, raisedIn, manifest, mainpc, svcVars, exVars, auxVars>>

\* lines 416-419: after the pool has shut down, json.dump(results)
WriteManifest ==
    /\ mainpc = "collecting"
    /\ collected = Jobs
    /\ manifest' = results
    /\ mainpc' = "written"
    /\ UNCHANGED <<all_tasks, nopage, jpc, jtry, jres, raisedIn, results, collected, svcVars, exVars, auxVars>>

\* ------------------------------------------------------------------------
\* CodioAPI._extract_tar_inclusive (codio_downloader_images.py, lines 367-404)
\*
\* A member name is a sequence of pieces, "/" the separator; a path is the
\* sequence of its components from the root, a component the pieces between
\* two separators.
\* ------------------------------------------------------------------------
\* dest_dir
Dest == << <<"build">>, <<"s">> >>

\* line 374: the default exclude_globs
EXCLUDE_GLOBS == {".git", ".guides", ".codio"}

\* the files that exist outside dest_dir before extraction
Outside == { << <<"victim">> >> }

\* the default filter of tar.extract: none before Python 3.14, 'data' since
Filters == {"fully_trusted", "data"}

File(name, corrupt) ==
    [name |-> name, kind |-> "file", linkname |-> << >>, corrupt |-> corrupt]
Symlink(name, linkname) ==
    [name |-> name, kind |-> "symlink", linkname |-> linkname, corrupt |-> FALSE]
Hardlink(name, linkname) ==
    [name |-> name, kind |-> "hardlink", linkname |-> linkname, corrupt |-> FALSE]

\* the members an archive may hold
Members ==
    { File(<<"a">>, FALSE),
      File(<<"d", "/", "b">>, FALSE),
      File(<<"c">>, TRUE),
      File(<<"..", "/", "x">>, FALSE),
      File(<<"d", "/", "..", "/", "..", "/", "x">>, FALSE),
      File(<<"/", "e">>, FALSE),
      File(<<".git", "/", "c">>, FALSE),
      File(<<"my", ".git", "hub">>, FALSE),
      Symlink(<<"l">>, <<"..", "/", "..">>),
      File(<<"l", "/", "y">>, FALSE),
      Hardlink(<<"h">>, <<"..", "/", "..", "/", "victim">>),
      Hardlink(<<"h">>, <<"a">>),
      File(<<"h">>, FALSE) }

RECURSIVE Components(_, _)
\* the components of a name: the pieces between separators
Components(name, cur) ==
    IF name = << >>
      THEN IF cur = << >> THEN << >> ELSE << cur >>
      ELSE IF Head(name) = "/"
        THEN (IF cur = << >> THEN << >> ELSE << cur >>) \o Components(Tail(name), << >>)
        ELSE Components(Tail(name), Append(cur, Head(name)))

IsAbsolute(name) == Len(name) > 0 /\ name[1] = "/"

\* Path(dest_dir) / member.name (line 381): an absolute name replaces dest_dir
JoinPath(dir, name) ==
    IF IsAbsolute(name) THEN Components(name, << >>) ELSE dir \o Components(name, << >>)

Parent(path) == IF path = << >> THEN << >> ELSE SubSeq(path, 1, Len(path) - 1)

IsPrefix(a, b) == Len(a) <= Len(b) /\ SubSeq(b, 1, Len(a)) = a

RECURSIVE Walk(_, _, _)
\* Path.resolve(): follow the components from cur; ".." goes to the parent,
\* a symbolic link on the way is replaced by what it names
Walk(cur, comps, lnks) ==
    IF comps = << >> THEN cur
    ELSE LET c == Head(comps)
             rest == Tail(comps)
             nxt == Append(cur, c)
         IN  IF c = << ".." >> THEN Walk(Parent(cur), rest, lnks)
             ELSE IF \E l \in lnks : l.at = nxt
               THEN LET l == CHOOSE l \in lnks : l.at = nxt
                    IN  IF IsAbsolute(l.to)
                          THEN Walk(<< >>, Components(l.to, << >>) \o rest, lnks)
                          ELSE Walk(cur, Components(l.to, << >>) \o rest, lnks)
               ELSE Walk(nxt, rest, lnks)

Resolve(path, lnks) == Walk(<< >>, path, lnks)

\* line 382: not member_path.resolve().is_relative_to(dest_dir.resolve())
UnsafePath(name, lnks) ==
    ~IsPrefix(Resolve(Dest, lnks), Resolve(JoinPath(Dest, name), lnks))

ShouldExcludePrefixOnly(name) ==
    \E pattern \in exclude_globs : Len(name) > 0 /\ name[1] = pattern

\* lines 387-391: pattern in member.name or member.name.startswith(pattern)
ShouldExclude(name) ==
    \E pattern \in exclude_globs : \E k \in 1..Len(name) : name[k] = pattern

\* where tar.extract puts a symbolic link: in the resolved parent directory
LinkAt(name, lnks) ==
    LET p == JoinPath(Dest, name)
    IN  Append(Resolve(Parent(p), lnks), p[Len(p)])

\* the files extraction has touched, and the places its links stand at
Entries(files, lnks, hards) ==
    files \cup { l.at : l \in lnks } \cup { l.at : l \in hards }

\* the paths that exist as directories: the proper prefixes of what exists
IsDirectory(path, files, lnks, hards) ==
    \E q \in Entries(files, lnks, hards) : Len(path) < Len(q) /\ IsPrefix(path, q)

\* what a link member names: a symbolic link counts from its own directory,
\* a hard link from dest_dir (tarfile: _link_target)
LinkTarget(m, lnks) ==
    IF m.kind = "symlink"
      THEN IF IsAbsolute(m.linkname)
             THEN Resolve(Components(m.linkname, << >>), lnks)
             ELSE Resolve(Parent(LinkAt(m.name, lnks)) \o Components(m.linkname, << >>), lnks)
      ELSE Resolve(JoinPath(Dest, m.linkname), lnks)

\* the 'data' filter refuses a link that names something outside dest_dir
FilterRejects(m, lnks, filter) ==
    /\ filter = "data"
    /\ m.kind # "file"
    /\ ~IsPrefix(Dest, LinkTarget(m, lnks))

\* the place tar.extract writes member m at
TargetPath(m, lnks) ==
    IF m.kind = "file" THEN Resolve(JoinPath(Dest, m.name), lnks) ELSE LinkAt(m.name, lnks)

\* the paths that share their file with path: open(path, "wb") rewrites them all
Aliases(path, hards) ==
    {path} \cup { l.to : l \in { h \in hards : h.at = path } }
           \cup { l.at : l \in { h \in hards : h.to = path } }

\* tar.extract(member, dest_dir) raises (line 399): the member is corrupt, the
\* filter refuses it, its place is taken by a directory, a file stands where a
\* directory is needed, os.link finds its place taken, or a hard link names
\* nothing that exists on disk or in the archive
ExtractRaises(m, members, files, lnks, hards, filter) ==
    LET target == TargetPath(m, lnks)
    IN  \/ m.corrupt
        \/ FilterRejects(m, lnks, filter)
        \/ IsDirectory(target, files, lnks, hards)
        \/ \E q \in files : Len(q) < Len(target) /\ IsPrefix(q, target)
        \/ /\ m.kind = "hardlink"
           /\ \/ target \in Entries(files, lnks, hards)
              \/ /\ LinkTarget(m, lnks) \notin Entries(files, lnks, hards) \cup Outside
                 /\ ~\E k \in 1..Len(members) :
                       members[k].kind = "file" /\ members[k].name = m.linkname

OnExtractErrorRaise == "raise"

\* lines 400-402: the except branch of tar.extract logs and continues
OnExtractError == "continue"

\* lines 376-378: dest_dir exists and is empty, the tar is open
ExtractInit(members, filter) ==
    /\ archive = members
    /\ extraction_filter = filter
    /\ mi = 1
    /\ written = {}
    /\ links = {}
    /\ hard = {}
    /\ warned = {}
    /\ extracted = {}
    /\ failed = {}
    /\ rpath = << >>
    /\ expc = "members"

\* what a successful tar.extract leaves on disk: makefile writes through the
\* file that stands there, makelink makes the link (or copies the member a
\* hard link names when no such file exists)
Materialize(m) ==
    LET target == TargetPath(m, links)
    IN  IF m.kind = "file"
          THEN /\ written' = written \cup Aliases(target, hard)
               /\ UNCHANGED <<links, hard>>
          ELSE IF m.kind = "symlink"
            THEN /\ links' = { l \in links : l.at # target } \cup
                               {[at |-> target, to |-> m.linkname]}
                 /\ UNCHANGED <<written, hard>>
            ELSE IF LinkTarget(m, links) \in Entries(written, links, hard) \cup Outside
              THEN /\ hard' = hard \cup {[at |-> target, to |-> LinkTarget(m, links)]}
                   /\ UNCHANGED <<written, links>>
              ELSE /\ written' = written \cup {target}
                   /\ UNCHANGED <<links, hard>>

\* lines 379-402: one iteration of the loop over tar.getmembers()
ExtractMember ==
    /\ expc = "members"
    /\ mi <= Len(archive)
    /\ LET m == archive[mi]
       IN  /\ rpath' = Append(rpath, Resolve(JoinPath(Dest, m.name), links))
           /\ IF UnsafePath(m.name, links)
                THEN /\ warned' = warned \cup {mi}
                     /\ mi' = mi + 1
                     /\ UNCHANGED <<written, links, hard, extracted, failed, expc>>
                ELSE IF ShouldExclude(m.name)
                  THEN /\ mi' = mi + 1
                       /\ UNCHANGED <<written, links, hard, warned, extracted, failed, expc>>
                  ELSE IF ExtractRaises(m, archive, written, links, hard, extraction_filter)
                    THEN /\ failed' = failed \cup {mi}
                         /\ IF OnExtractError = "continue"
                              THEN mi' = mi + 1 /\ UNCHANGED expc
                              ELSE expc' = "raised" /\ UNCHANGED mi
                         /\ UNCHANGED <<written, links, hard, warned, extracted>>
                    ELSE /\ extracted' = extracted \cup {mi}
                         /\ Materialize(m)
                         /\ mi' = mi + 1
                         /\ UNCHANGED <<warned, failed, expc>>
    /\ UNCHANGED <<archive, extraction_filter, svcVars, jobVars, auxVars>>

\* line 404: the loop is over
ExtractEnd ==
    /\ expc = "members"
    /\ mi > Len(archive)
    /\ expc' = "done"
    /\ UNCHANGED <<archive, mi, written, links, hard, extraction_filter, warned,
                   extracted, failed, rpath, svcVars, jobVars, auxVars>>

\* ------------------------------------------------------------------------
\* CodioAPI._extract_assignment (codio_downloader_images.py, lines 322-340)
\* ------------------------------------------------------------------------
\* the files dest_dir may hold before the call
PriorFiles == { Dest \o << <<"a">> >>, Dest \o << <<"old">> >> }

\* dest_dir before the call: absent, or a directory with some of these files
Priors ==
    {[exists |-> FALSE, files |-> {}]} \cup
    { [exists |-> TRUE, files |-> f] : f \in SUBSET PriorFiles }

\* the suffix of the archive file
Suffixes == {".zst", ".tar", ".zip"}

\* an optional list of patterns: None, or a list
NoGlobs == [given |-> FALSE, globs |-> {}]
Globs(list) == [given |-> TRUE, globs |-> list]

\* lines 373-374: if exclude_globs is None, the default set
GlobsOrDefault(arg) == IF arg.given THEN arg.globs ELSE EXCLUDE_GLOBS

\* lines 334 and 338: _extract_tar_inclusive(tar_file, dest_dir), without a
\* third argument, whatever the configuration says
PassedGlobs(config) == NoGlobs

\* what the configuration file may say under exclude_globs
ConfigData == { NoGlobs, Globs({}), Globs({".git"}), Globs({"d", ".git", ".codio"}) }

\* publish_about_me.py line 138: data.get('exclude_globs', [...])
PublishConfig_exclude_globs(data) ==
    IF data.given THEN data.globs ELSE {".git", ".guides", ".codio"}

\* _extract_assignment is not running; _extract_tar_inclusive on its own is
\* called without exclude_globs
AssignIdle ==
    /\ config_exclude_globs = PublishConfig_exclude_globs(NoGlobs)
    /\ exclude_globs = GlobsOrDefault(NoGlobs)
    /\ prior = [exists |-> FALSE, files |-> {}]
    /\ stale = {}
    /\ eapc = "idle"
    /\ temp_file = FALSE
    /\ tar_file = FALSE

\* _extract_assignment is entered with dest_dir in state p, after
\* _download_file has written temp_file (download_student_assignment, lines
\* 279-283)
AssignInit(p) ==
    /\ exclude_globs = {}
    /\ prior = p
    /\ stale = p.files
    /\ eapc = "clean"
    /\ temp_file = TRUE
    /\ tar_file = FALSE

\* the tar of the call is not open yet
TarClosed(members, filter) ==
    /\ archive = members
    /\ extraction_filter = filter
    /\ mi = 1
    /\ written = {}
    /\ links = {}
    /\ hard = {}
    /\ warned = {}
    /\ extracted = {}
    /\ failed = {}
    /\ rpath = << >>
    /\ expc = "idle"

RemoveTreeKeeps(files) == files

\* line 326: shutil.rmtree(dest_dir) leaves nothing of the directory
RemoveTree(files) == {}

\* lines 325-327: remove dest_dir if it exists (rmtree may raise), recreate it
AssignClean ==
    /\ eapc = "clean"
    /\ IF prior.exists
         THEN \E ok \in BOOLEAN :
                IF ok THEN stale' = RemoveTree(stale) /\ eapc' = "dispatch"
                      ELSE eapc' = "raised" /\ UNCHANGED stale
         ELSE eapc' = "dispatch" /\ UNCHANGED stale
    /\ UNCHANGED <<config_exclude_globs, exclude_globs, prior, temp_file, tar_file, svcVars, jobVars, exVars, pollVars, discVars, pureVars>>

\* lines 330-340: by suffix, decompress to tar_file (zstd may raise, with or
\* without a partial output) and open the tar (tarfile.open raises on a file
\* that is no tar), open the tar, or raise ValueError
AssignDispatch ==
    /\ eapc = "dispatch"
    /\ \E suffix \in Suffixes : \E ok \in BOOLEAN : \E opens \in BOOLEAN :
         \E partial \in BOOLEAN :
           /\ tar_file' = IF suffix = ".zst" THEN (ok \/ partial) ELSE tar_file
           /\ IF (suffix = ".tar" \/ (suffix = ".zst" /\ ok)) /\ opens
                THEN /\ eapc' = "extract" /\ expc' = "members"
                     /\ exclude_globs' = GlobsOrDefault(PassedGlobs(config_exclude_globs))
                ELSE eapc' = "raised" /\ UNCHANGED <<expc, exclude_globs>>
    /\ UNCHANGED <<config_exclude_globs, prior, stale, temp_file, svcVars, jobVars, pollVars, discVars, pureVars, archive,
                   mi, written, links, hard, extraction_filter, warned, extracted,
                   failed, rpath>>

\* lines 336-337: if tar_file.exists(): tar_file.unlink()
TarUnlink(exists) == FALSE

\* lines 334-337: _extract_tar_inclusive has returned; tar_file is removed and
\* the call returns
AssignReturn ==
    /\ eapc = "extract"
    /\ expc = "done"
    /\ eapc' = "returned"
    /\ tar_file' = TarUnlink(tar_file)
    /\ UNCHANGED <<config_exclude_globs, exclude_globs, prior, stale, temp_file, svcVars, jobVars, exVars, pollVars, discVars, pureVars>>

\* download_student_assignment lines 286-287: after _extract_assignment has
\* returned, temp_file is removed
AssignCleanup ==
    /\ eapc = "returned"
    /\ eapc' = "finished"
    /\ temp_file' = FALSE
    /\ UNCHANGED <<config_exclude_globs, exclude_globs, prior, stale, tar_file, svcVars, jobVars, exVars, pollVars, discVars, pureVars>>

\* ------------------------------------------------------------------------
\* CodioAPI._wait_download_task (codio_downloader_images.py, lines 289-303)
\* called for one job (download_student_project, export_student_assignment)
\* ------------------------------------------------------------------------
\* _wait_download_task is not running
PollIdle ==
    /\ ppc = "idle"
    /\ start_time = 0
    /\ poll_result = [done |-> FALSE, error |-> FALSE, url |-> FALSE]
    /\ poll_outcome = "none"
    /\ npolls = 0

\* line 291: start_time = time.time()
PollInit ==
    /\ ppc = "test"
    /\ start_time = clock
    /\ poll_result = [done |-> FALSE, error |-> FALSE, url |-> FALSE]
    /\ poll_outcome = "none"
    /\ npolls = 0

\* the job whose export is polled: its first attempt is inside the try block
PollingJob(student) ==
    /\ all_tasks = << student >>
    /\ jpc = << "downloading" >>
    /\ jtry = << 1 >>
    /\ jres = << NoResult >>
    /\ raisedIn = << "none" >>
    /\ nopage = {}
    /\ results = << >>
    /\ collected = {}
    /\ manifest = << >>
    /\ mainpc = "collecting"

\* what a poll may answer: done, a truthy error field, a url field
PollResponses == [done : BOOLEAN, error : BOOLEAN, url : BOOLEAN]

\* line 293: while time.time() - start_time < max_wait; line 302 otherwise
PollTest ==
    /\ ppc = "test"
    /\ IF clock - start_time < MAX_WAIT
         THEN ppc' = "request" /\ UNCHANGED poll_outcome
         ELSE ppc' = "raised" /\ poll_outcome' = "timeout"
    /\ UNCHANGED <<start_time, poll_result, npolls, svcVars, jobVars, exVars, asVars, discVars, pureVars>>

\* line 294: result = self.request(...): the call takes some time (the waits
\* of the rate limiter, its attempts and their backoff) and returns a dict or
\* raises
PollRequest ==
    /\ ppc = "request"
    /\ \E d \in 0..MaxRequestTime :
         /\ clock + d <= bound.time
         /\ clock' = clock + d
    /\ npolls' = npolls + 1
    /\ \E raises \in BOOLEAN :
         IF raises
           THEN /\ ppc' = "raised"
                /\ poll_outcome' = "request_error"
                /\ UNCHANGED poll_result
           ELSE /\ \E r \in PollResponses : poll_result' = r
                /\ ppc' = "examine"
                /\ UNCHANGED poll_outcome
    /\ UNCHANGED <<start_time, active, thVars, rlVars, apiVars, bound, cfgVars, jobVars, exVars,
                   asVars, discVars, pureVars>>

\* line 296: result.get('done')
TaskDone(result) == result.done

TaskErrorIgnored(result) == FALSE

\* line 297: result.get('error')
TaskError(result) == result.error

\* lines 296-300: done with an error raises RuntimeError, done returns
\* result['url'] (KeyError without the key), otherwise sleep
PollExamine ==
    /\ ppc = "examine"
    /\ IF TaskDone(poll_result)
         THEN IF TaskError(poll_result)
                THEN ppc' = "raised" /\ poll_outcome' = "task_error"
                ELSE IF poll_result.url
                  THEN ppc' = "returned" /\ poll_outcome' = "url"
                  ELSE ppc' = "raised" /\ poll_outcome' = "key_error"
         ELSE ppc' = "sleep" /\ UNCHANGED poll_outcome
    /\ UNCHANGED <<start_time, poll_result, npolls, svcVars, jobVars, exVars, asVars, discVars, pureVars>>

\* line 300: time.sleep(0.5)
PollSleep ==
    /\ ppc = "sleep"
    /\ clock + POLL_SLEEP <= bound.time
    /\ clock' = clock + POLL_SLEEP
    /\ ppc' = "test"
    /\ UNCHANGED <<start_time, poll_result, poll_outcome, npolls, active, thVars, rlVars,
                   apiVars, bound, cfgVars, jobVars, exVars, asVars, discVars, pureVars>>

\* publish_about_me.py lines 325-343: what _wait_download_task raised reaches
\* the except branch of the job, which returns the failed dict
PollJobFails ==
    /\ ppc = "raised"
    /\ jpc[1] = "downloading"
    /\ JobFails(1, "download")
    /\ UNCHANGED <<all_tasks, nopage, jtry, results, collected, manifest, mainpc, svcVars,
                   exVars, auxVars>>

\* lines 279-283: the url is returned and the job goes on to _download_file
\* and the extraction
PollJobGoesOn ==
    /\ ppc = "returned"
    /\ jpc[1] = "downloading"
    /\ jpc' = [jpc EXCEPT ![1] = "extracting"]
    /\ UNCHANGED <<all_tasks, nopage, jtry, jres, raisedIn, results, collected, manifest, mainpc,
                   svcVars, exVars, auxVars>>

\* ------------------------------------------------------------------------
\* AboutMeDownloader.download_all_students, the discovery loop
\* (publish_about_me.py, lines 354-395)
\* ------------------------------------------------------------------------
\* names are sequences of characters
Names == { <<"a", "b">>, <<"A", "B">>, <<"b", "b">> }

\* config.assignment_name (line 109)
assignment_name == <<"A", "b">>

\* config.sections (line 113): section -> course id
SectionConfig ==
    << [section |-> "A", course_id |-> "c1"], [section |-> "B", course_id |-> "c2"] >>

\* str.lower() on one character and on a name
LowerChar(c) ==
    CASE c = "A" -> "a"
      [] c = "B" -> "b"
      [] OTHER -> c

Lower(name) == [k \in DOMAIN name |-> LowerChar(name[k])]

NameMatchesExactly(a, name) == a = name

\* line 370: a['name'].lower() == self.config.assignment_name.lower()
NameMatches(a, name) == Lower(a) = Lower(name)

\* what get_course may return: the course may lack 'name'; the assignments
\* of its modules, in the order the two loops of lines 368-374 visit them,
\* the id of an assignment being its position
Courses ==
    [named : BOOLEAN, assignments : SeqsUpTo(Names, MaxAssignments)]

NoCourse == [named |-> FALSE, assignments |-> << >>]

\* what get_students may return: a roster lists a student once
Rosters ==
    { r \in SeqsUpTo(Students, MaxRoster) : \A j, k \in DOMAIN r : r[j] = r[k] => j = k }

\* lines 367-374: the first assignment whose name matches, 0 for None
FindAssignment(assignments) ==
    LET hits == { k \in DOMAIN assignments : NameMatches(assignments[k], assignment_name) }
    IN IF hits = {} THEN 0 ELSE CHOOSE k \in hits : \A h \in hits : k <= h

\* line 390: the tuple (section, student, assignment_id, course_id)
Task(sec, student, assignment_id) ==
    [name |-> student.name, has_id |-> student.has_id, id |-> student.id,
     dir |-> student.dir, section |-> sec.section, assignment_id |-> assignment_id,
     course_id |-> sec.course_id]

\* line 390: all_tasks.append for every student of the roster
Enqueue(tasks) ==
    /\ all_tasks' = all_tasks \o tasks
    /\ jpc' = jpc \o [k \in DOMAIN tasks |-> "pending"]
    /\ jtry' = jtry \o [k \in DOMAIN tasks |-> 0]
    /\ jres' = jres \o [k \in DOMAIN tasks |-> NoResult]
    /\ raisedIn' = raisedIn \o [k \in DOMAIN tasks |-> "none"]

\* the discovery loop is not running
DiscIdle ==
    /\ sections = << >>
    /\ dpc = "idle"
    /\ dsec = 0
    /\ course = NoCourse
    /\ assignment = 0
    /\ dlog = << >>

\* line 354: all_tasks = [], and the loop is at the first section
DiscInit(secs) ==
    /\ sections = secs
    /\ dpc = "section"
    /\ dsec = 1
    /\ course = NoCourse
    /\ assignment = 0
    /\ dlog = << >>

\* what is noted of a section processed
Logged(fetched, c, found, listed, roster) ==
    [fetched |-> fetched, course |-> c, found |-> found, listed |-> listed,
     roster |-> roster]

\* the loop of line 357 goes to the next section, by continue (lines 378,
\* 395) or at the end of its body
NextSection(entry) ==
    /\ dsec' = dsec + 1
    /\ dpc' = IF dsec + 1 > Len(sections) THEN "done" ELSE "section"
    /\ dlog' = Append(dlog, entry)
    /\ course' = NoCourse
    /\ assignment' = 0

\* lines 362-363: get_course returns a course or raises; course['name']
\* raises on a course without the key; lines 393-395 catch both
DiscoverCourse ==
    /\ dpc = "section"
    /\ \E raises \in BOOLEAN : \E c \in Courses :
         IF raises
           THEN /\ NextSection(Logged(FALSE, NoCourse, 0, FALSE, << >>))
                /\ UNCHANGED sections
           ELSE IF ~c.named
             THEN /\ NextSection(Logged(TRUE, c, 0, FALSE, << >>))
                  /\ UNCHANGED sections
             ELSE /\ course' = c
                  /\ dpc' = "match"
                  /\ UNCHANGED <<sections, dsec, assignment, dlog>>
    /\ UNCHANGED <<svcVars, jobVars, exVars, asVars, pollVars, pureVars>>

\* lines 366-381: look for the assignment; without one, log and continue
DiscoverAssignment ==
    /\ dpc = "match"
    /\ LET found == FindAssignment(course.assignments)
       IN IF found = 0
            THEN NextSection(Logged(TRUE, course, 0, FALSE, << >>))
            ELSE /\ assignment' = found
                 /\ dpc' = "students"
                 /\ UNCHANGED <<dsec, course, dlog>>
    /\ UNCHANGED <<sections, svcVars, jobVars, exVars, asVars, pollVars, pureVars>>

\* lines 384-390: get_students returns the roster, whose students are queued,
\* or raises, which lines 393-395 catch
DiscoverStudents ==
    /\ dpc = "students"
    /\ \E raises \in BOOLEAN : \E roster \in Rosters :
         IF raises
           THEN /\ NextSection(Logged(TRUE, course, assignment, FALSE, << >>))
                /\ UNCHANGED jobVars
           ELSE /\ Enqueue([k \in DOMAIN roster |->
                               Task(sections[dsec], roster[k], assignment)])
                /\ NextSection(Logged(TRUE, course, assignment, TRUE, roster))
                /\ UNCHANGED <<nopage, results, collected, manifest, mainpc>>
    /\ UNCHANGED <<sections, svcVars, exVars, asVars, pollVars, pureVars>>

\* ------------------------------------------------------------------------
\* parse_display_name (publish_about_me.py, lines 1-41)
\* ------------------------------------------------------------------------
\* a name is a sequence of tokens; a token is a word, a sequence of
\* characters, or a run of white space
SP == << " " >>
Michael == << "M", "i", "c", "h", "a", "e", "l" >>
Holland == << "H", "o", "l", "l", "a", "n", "d" >>
H == << "H" >>
Jonathan == << "J", "o", "n", "a", "t", "h", "a", "n" >>
Smith == << "S", "m", "i", "t", "h" >>
Shiyang == << "S", "h", "i", "y", "a", "n", "g" >>
lee == << "l", "e", "e" >>
Julian == << "J", "u", "l", "i", "a", "n" >>
April == << "A", "p", "r", "i", "l" >>
Micky == << "M", "i", "c", "k", "y" >>

NameTokens == { SP, Michael, Holland, H, Jonathan, Smith, Shiyang, lee }

\* lines 2-9: PREFERRED_NAMES, as far as the words of the model go
PREFERRED_NAMES == (Jonathan :> Julian) @@ (Shiyang :> April)

\* lines 12-15: SPECIAL_NAME_CASES
SPECIAL_NAME_CASES ==
    (<< Michael, SP, Holland >> :> << Micky, SP, H >>) @@
    (<< Michael, SP, H >> :> << Micky, SP, H >>)

\* line 21: "Unknown Student"
UnknownStudent == << << "Unknown" >>, SP, << "Student" >> >>

\* str.strip(): without leading and trailing white space
RECURSIVE StripLeft(_)
StripLeft(name) ==
    IF name # << >> /\ Head(name) = SP THEN StripLeft(Tail(name)) ELSE name

RECURSIVE StripRight(_)
StripRight(name) ==
    IF name # << >> /\ name[Len(name)] = SP
      THEN StripRight(SubSeq(name, 1, Len(name) - 1))
      ELSE name

Strip(name) == StripRight(StripLeft(name))

\* str.split(): the words between runs of white space
RECURSIVE Split(_)
Split(name) ==
    IF name = << >> THEN << >>
    ELSE IF Head(name) = SP THEN Split(Tail(name))
    ELSE << Head(name) >> \o Split(Tail(name))

\* str.upper() on one character
UpperChar(c) ==
    CASE c = "l" -> "L"
      [] c = "h" -> "H"
      [] c = "s" -> "S"
      [] OTHER -> c

\* dict.get(word, word) on PREFERRED_NAMES
Preferred(word) ==
    IF word \in DOMAIN PREFERRED_NAMES THEN PREFERRED_NAMES[word] ELSE word

InSpecialCasesNever(name) == FALSE

\* line 24: full_name.strip() in SPECIAL_NAME_CASES
InSpecialCases(name) == name \in DOMAIN SPECIAL_NAME_CASES

\* lines 18-41
parse_display_name(name) ==
    IF name = << >> \/ Strip(name) = << >> THEN UnknownStudent
    ELSE IF InSpecialCases(Strip(name)) THEN SPECIAL_NAME_CASES[Strip(name)]
    ELSE LET parts == Split(Strip(name))
         IN  IF Len(parts) = 1 THEN << Preferred(parts[1]) >>
             ELSE LET last_initial == << UpperChar(parts[Len(parts)][1]) >>
                  IN  << Preferred(parts[1]), SP, last_initial >>

\* no function is being applied
PureIdle ==
    /\ fpc = "idle"
    /\ full_name = << >>
    /\ display_name = << >>
    /\ project_dir = {}
    /\ listing = << >>
    /\ entry_page_result = [found |-> FALSE, path |-> << >>, file |-> ""]
    /\ enqueued = << >>
    /\ job_paths = << >>

\* parse_display_name is called with name
NameInit(name) ==
    /\ fpc = "name"
    /\ full_name = name
    /\ display_name = << >>
    /\ project_dir = {}
    /\ listing = << >>
    /\ entry_page_result = [found |-> FALSE, path |-> << >>, file |-> ""]
    /\ enqueued = << >>
    /\ job_paths = << >>

\* the call returns
ParseName ==
    /\ fpc = "name"
    /\ display_name' = parse_display_name(full_name)
    /\ fpc' = "done"
    /\ UNCHANGED <<full_name, project_dir, listing, entry_page_result, enqueued, job_paths,
                   svcVars, jobVars,
                   exVars, asVars, pollVars, discVars>>

\* ------------------------------------------------------------------------
\* find_entry_page (publish_about_me.py, lines 205-241)
\* ------------------------------------------------------------------------
\* lines 209-210
patterns == << "index.html", "Index.html", "INDEX.HTML", "index.htm", "Index.htm" >>
fallback_patterns == << "home.html", "start.html", "main.html" >>

\* a project directory is the set of the paths of its files, relative to
\* project_dir; its directories are the proper prefixes of these paths
TreeFiles ==
    { << "index.html" >>, << "index.htm" >>, << "home.html" >>,
      << "index.html", "keep" >>,
      << "a", "index.html" >>, << "a", "home.html" >>, << "b", "index.html" >>,
      << ".h", "index.html" >>,
      << "a", "x", "index.html" >>, << "b", "x", "index.html" >>,
      << "a", ".y", "index.html" >> }

\* no path is a file and a directory at once
IsTree(files) ==
    \A f, g \in files : ~(Len(f) < Len(g) /\ SubSeq(g, 1, Len(f)) = f)

\* the orders in which iterdir may list the names of a directory
Listings ==
    { << "a", "b", "index.html", ".h", "x", ".y" >>,
      << "b", "a", ".y", "x", ".h", "index.html" >> }

\* Path.is_file and Path.is_dir
IsFile(files, path) == path \in files
IsDir(files, path) ==
    \E f \in files : Len(path) < Len(f) /\ SubSeq(f, 1, Len(path)) = path

\* str.startswith('.') on the names of the model
StartsWithDot(name) == name \in { ".h", ".y" }

IsSearchedOnlyA(name) == name = "a"

\* lines 221 and 229: not name.startswith('.')
IsSearched(name) == ~StartsWithDot(name)

\* lines 220-221 and 228-229: the subdirectories of dir that are searched,
\* in the order of the listing
SubdirsOf(files, dir, order) ==
    SelectSeq(order, LAMBDA n : IsDir(files, dir \o << n >>) /\ IsSearched(n))

\* a value returned: None, or (relative path, file name)
None == [found |-> FALSE, path |-> << >>, file |-> ""]
Found(path, file) == [found |-> TRUE, path |-> path, file |-> file]

\* lines 213-216, 222-225, 230-233, 236-239: the first pattern that is a
\* file of dir
FirstPattern(files, dir, pats) ==
    LET hits == { k \in DOMAIN pats : IsFile(files, dir \o << pats[k] >>) }
    IN  IF hits = {} THEN None
        ELSE Found(dir, pats[CHOOSE k \in hits : \A h \in hits : k <= h])

\* lines 228-233: the loop over the subdirectories of subdir
RECURSIVE SearchDeeper(_, _, _)
SearchDeeper(files, subdir, subsubdirs) ==
    IF subsubdirs = << >> THEN None
    ELSE LET hit == FirstPattern(files, << subdir, Head(subsubdirs) >>, patterns)
         IN  IF hit.found THEN hit
             ELSE SearchDeeper(files, subdir, Tail(subsubdirs))

\* lines 220-233: the loop over the subdirectories of project_dir: each
\* subdirectory is checked, and then its own subdirectories, before the next
RECURSIVE SearchSubdirs(_, _, _)
SearchSubdirs(files, subdirs, order) ==
    IF subdirs = << >> THEN None
    ELSE LET subdir == Head(subdirs)
             hit == FirstPattern(files, << subdir >>, patterns)
             deeper == SearchDeeper(files, subdir, SubdirsOf(files, << subdir >>, order))
         IN  IF hit.found THEN hit
             ELSE IF deeper.found THEN deeper
             ELSE SearchSubdirs(files, Tail(subdirs), order)

\* lines 205-241
find_entry_page(files, order) ==
    LET root == FirstPattern(files, << >>, patterns)
        below == SearchSubdirs(files, SubdirsOf(files, << >>, order), order)
    IN  IF root.found THEN root
        ELSE IF below.found THEN below
        ELSE FirstPattern(files, << >>, fallback_patterns)

\* find_entry_page is called on a project directory
FindInit(files, order) ==
    /\ fpc = "find"
    /\ full_name = << >>
    /\ display_name = << >>
    /\ project_dir = files
    /\ listing = order
    /\ entry_page_result = None
    /\ enqueued = << >>
    /\ job_paths = << >>

\* the call returns
FindEntryPage ==
    /\ fpc = "find"
    /\ entry_page_result' = find_entry_page(project_dir, listing)
    /\ fpc' = "found"
    /\ UNCHANGED <<full_name, display_name, project_dir, listing, enqueued, job_paths,
                   svcVars, jobVars,
                   exVars, asVars, pollVars, discVars>>

\* ------------------------------------------------------------------------
\* the paths of a job: download_student_project (publish_about_me.py, lines
\* 267-291), download_student_assignment and _extract_assignment
\* (codio_downloader_images.py, lines 279-280 and 331)
\* ------------------------------------------------------------------------
\* a string is the sequence of its characters; the suffixes .zst and .tar
\* stand as one item each
ZST == ".zst"
TAR == ".tar"

\* the user names of a roster (empty: the roster gives none) and the names
UserNames ==
    { << >>, << "a" >>, << "a", "b" >>, << "a", ".", "b" >>, << "a", ".", "a" >>,
      << "a", " ", "b" >>, << "a", "_", "b" >>, << "a", "/", "b" >>, << "é" >>,
      << "a", ZST >> }
StudentNames ==
    { << "A", " ", "b" >>, << "a", "-", "b" >>, << "é" >>, << " ", "b", "." >> }

SectionNames == { << "s1" >>, << "s2" >> }

\* str.replace(' ', '_')
ReplaceSpaces(name) == [k \in DOMAIN name |-> IF name[k] = " " THEN "_" ELSE name[k]]

\* re.sub(r'[<>:"/\\|?*]', '', ...) and encode('ascii', 'ignore')
IsReserved(c) == c \in { "<", ">", ":", "/", "|", "?", "*" }
IsAscii(c) == c # "é"

\* lines 187-192: sanitize_name
sanitize_name(name) ==
    LET sanitized == SelectSeq(ReplaceSpaces(name),
                               LAMBDA c : ~IsReserved(c) /\ IsAscii(c))
    IN  IF sanitized = << >>
          THEN << "u", "n", "k", "n", "o", "w", "n" >>
          ELSE sanitized

\* \w, \s and the hyphen on the characters of the names
IsWordChar(c) == c \in { "a", "b", "A", "B", "_", "é", "u", "n", "k", "o", "w" }
IsSeparator(c) == c \in { " ", "-" }

\* re.sub(r'[-\s]+', '-', text)
RECURSIVE Hyphenate(_)
Hyphenate(text) ==
    IF text = << >> THEN << >>
    ELSE IF IsSeparator(Head(text))
      THEN IF Len(text) > 1 /\ IsSeparator(text[2])
             THEN Hyphenate(Tail(text))
             ELSE << "-" >> \o Hyphenate(Tail(text))
      ELSE << Head(text) >> \o Hyphenate(Tail(text))

\* str.strip() on a sequence of characters
RECURSIVE StripText(_)
StripText(text) ==
    IF text # << >> /\ Head(text) = " " THEN StripText(Tail(text))
    ELSE IF text # << >> /\ text[Len(text)] = " "
      THEN StripText(SubSeq(text, 1, Len(text) - 1))
      ELSE text

\* lines 195-200: slugify
slugify(text) ==
    Hyphenate(SelectSeq(StripText(Lower(text)),
                        LAMBDA c : IsWordChar(c) \/ IsSeparator(c)))

\* PurePath.suffix: the name from its last dot on, when that dot is neither
\* the first nor the last character of the name
HasDot(c) == c \in { ".", ZST, TAR }
SuffixStart(name) ==
    LET dots == { k \in DOMAIN name : HasDot(name[k]) }
        last == CHOOSE k \in dots : \A d \in dots : d <= k
    IN  IF dots # {} /\ last > 1 /\ (name[last] # "." \/ last < Len(name))
          THEN last
          ELSE 0

\* PurePath.with_suffix: the suffix of the last component is replaced; a
\* name without suffix gets the new one appended
with_suffix(path, suffix) ==
    LET name == path[Len(path)]
        at == SuffixStart(name)
        stem == IF at = 0 THEN name ELSE SubSeq(name, 1, at - 1)
    IN  SubSeq(path, 1, Len(path) - 1) \o << stem \o << suffix >> >>

\* lines 273-284 of publish_about_me.py: student_dir; line 279 of
\* codio_downloader_images.py: temp_file; line 331: tar_file
PathsOf(task) ==
    LET username == IF task.student.username = << >>
                      THEN slugify(task.student.name)
                      ELSE task.student.username
        student_slug == sanitize_name(username)
        student_dir == << << "build" >>, task.section, student_slug >>
        temp_file_ == with_suffix(student_dir, ZST)
    IN  [student_dir |-> student_dir,
         temp_file |-> temp_file_,
         tar_file |-> with_suffix(temp_file_, TAR)]

\* the tasks of a run are enqueued: students with different ids, and with
\* different user names where the roster gives them
PathsInit(tasks) ==
    /\ fpc = "paths"
    /\ full_name = << >>
    /\ display_name = << >>
    /\ project_dir = {}
    /\ listing = << >>
    /\ entry_page_result = None
    /\ enqueued = tasks
    /\ job_paths = << >>

\* the next job computes its paths
JobPaths ==
    /\ fpc = "paths"
    /\ Len(job_paths) < Len(enqueued)
    /\ job_paths' = Append(job_paths, PathsOf(enqueued[Len(job_paths) + 1]))
    /\ fpc' = IF Len(job_paths') = Len(enqueued) THEN "planned" ELSE "paths"
    /\ UNCHANGED <<full_name, display_name, project_dir, listing, entry_page_result,
                   enqueued, svcVars, jobVars, exVars, asVars, pollVars, discVars>>

\* none of the operations modelled on their own is running
AuxIdle == AssignIdle /\ PollIdle /\ DiscIdle /\ PureIdle

\* ------------------------------------------------------------------------
\* one caller, calls one after another / several callers
\* ------------------------------------------------------------------------
InitRL ==
    /\ ThreadsInit({"w1"}, Limits(MaxTime, 0, 0)) /\ RateLimiterInit /\ ApiInit
    /\ JobsInit(<< >>) /\ ExtractInit(<< >>, "fully_trusted") /\ AuxIdle
InitRLConc ==
    /\ ThreadsInit(Workers, Limits(MaxTime, 0, 0)) /\ RateLimiterInit /\ ApiInit
    /\ JobsInit(<< >>) /\ ExtractInit(<< >>, "fully_trusted") /\ AuxIdle

NextRL ==
    \/ Tick
    \/ \E t \in active : RLCall(t)
    \/ \E t \in active : RLEnter(t)
    \/ \E t \in active : RLDaily(t)
    \/ \E t \in active : RLDailyWake(t)
    \/ \E t \in active : RLPrune(t)
    \/ \E t \in active : RLPop(t)
    \/ \E t \in active : RLCheck(t)
    \/ \E t \in active : RLWait(t)
    \/ \E t \in active : RLBurstWake(t)
    \/ \E t \in active : RLPrune2(t)
    \/ \E t \in active : RLPop2(t)
    \/ \E t \in active : RLRecord(t)

SpecRL == InitRL /\ [][NextRL]_vars
SpecRLConc == InitRLConc /\ [][NextRL]_vars

\* ------------------------------------------------------------------------
\* one thread / several threads calling request() on one CodioAPI
\* ------------------------------------------------------------------------
InitReq ==
    /\ ThreadsInit({"w1"}, Limits(MaxTime, MaxReqs, MaxFaults))
    /\ RateLimiterInit /\ ApiInit
    /\ JobsInit(<< >>) /\ ExtractInit(<< >>, "fully_trusted") /\ AuxIdle
InitReqConc ==
    /\ ThreadsInit(Workers, Limits(MaxTimeConc, MaxReqs, MaxFaultsConc))
    /\ RateLimiterInit /\ ApiInit
    /\ JobsInit(<< >>) /\ ExtractInit(<< >>, "fully_trusted") /\ AuxIdle

NextReq ==
    \/ Tick
    \/ \E t \in active : ReqCall(t)
    \/ \E t \in active : ReqEnsure(t)
    \/ \E t \in active : AuthGet(t)
    \/ \E t \in active : AuthBackoffWake(t)
    \/ \E t \in active : AuthStoreToken(t)
    \/ \E t \in active : AuthStoreExpiry(t)
    \/ \E t \in active : RLEnter(t)
    \/ \E t \in active : RLDaily(t)
    \/ \E t \in active : RLDailyWake(t)
    \/ \E t \in active : RLPrune(t)
    \/ \E t \in active : RLPop(t)
    \/ \E t \in active : RLCheck(t)
    \/ \E t \in active : RLWait(t)
    \/ \E t \in active : RLBurstWake(t)
    \/ \E t \in active : RLPrune2(t)
    \/ \E t \in active : RLPop2(t)
    \/ \E t \in active : RLRecord(t)
    \/ \E t \in active : ReqSend(t)
    \/ \E t \in active : ReqResp(t)
    \/ \E t \in active : ReqResend(t)
    \/ \E t \in active : ReqAfter(t)
    \/ \E t \in active : Req429Wake(t)
    \/ \E t \in active : ReqFailed(t)
    \/ \E t \in active : ReqBackoffWake(t)

SpecReq == InitReq /\ [][NextReq]_vars

\* the steps of thread t inside a call
ThreadStep(t) ==
    \/ ReqEnsure(t) \/ AuthGet(t) \/ AuthBackoffWake(t) \/ AuthStoreToken(t)
    \/ AuthStoreExpiry(t) \/ RLEnter(t) \/ RLDaily(t) \/ RLDailyWake(t)
    \/ RLPrune(t) \/ RLPop(t) \/ RLCheck(t) \/ RLWait(t) \/ RLBurstWake(t)
    \/ RLPrune2(t) \/ RLPop2(t) \/ RLRecord(t) \/ ReqSend(t) \/ ReqResp(t)
    \/ ReqResend(t) \/ ReqAfter(t) \/ Req429Wake(t) \/ ReqFailed(t)
    \/ ReqBackoffWake(t)

\* some thread is in a sleep that has not run out
Sleeping ==
    \E t \in active :
        /\ pc[t] \in {"rl_daily_sleep", "rl_burst_sleep", "auth_backoff",
                      "req_429_sleep", "req_backoff"}
        /\ wake[t] > clock

\* a running thread goes on running, and time passes for a sleeping thread
\* (time.sleep, the HTTP timeouts of lines 167 and 209 and the waits of the
\* retry decorators all end)
FairReq ==
    /\ WF_vars(Tick /\ Sleeping)
    /\ \A t \in Workers : WF_vars(ThreadStep(t))

InitReqFair ==
    /\ ThreadsInit({"w1"}, Limits(MaxTimeFair, MaxReqs, MaxFaults))
    /\ RateLimiterInit /\ ApiInit
    /\ JobsInit(<< >>) /\ ExtractInit(<< >>, "fully_trusted") /\ AuxIdle

SpecReqFair == InitReqFair /\ [][NextReq]_vars /\ FairReq
SpecReqConc == InitReqConc /\ [][NextReq]_vars

\* a client constructed in either mode
InitDry ==
    /\ ThreadsInit({"w1"}, Limits(MaxTimeDry, MaxReqsDry, MaxFaults))
    /\ RateLimiterInit
    /\ ApiInit \/ DryApiInit
    /\ JobsInit(<< >>) /\ ExtractInit(<< >>, "fully_trusted") /\ AuxIdle

SpecDry == InitDry /\ [][NextReq]_vars

\* ------------------------------------------------------------------------
\* the specifications of the orchestrator and of the extractor
\* ------------------------------------------------------------------------
SvcIdle ==
    ThreadsInit({}, Limits(0, 0, 0)) /\ RateLimiterInit /\ ApiInit

InitJobs ==
    /\ SvcIdle
    /\ \E tasks \in SeqsUpTo(Students, MaxJobs) : JobsInit(tasks)
    /\ ExtractInit(<< >>, "fully_trusted") /\ AuxIdle

NextJobs ==
    \/ \E i \in Jobs : JobStart(i)
    \/ \E i \in Jobs : JobPreamble(i)
    \/ \E i \in Jobs : JobDownload(i)
    \/ \E i \in Jobs : JobExtract(i)
    \/ \E i \in Jobs : JobFind(i)
    \/ \E i \in Jobs : Collect(i)
    \/ WriteManifest

SpecJobs == InitJobs /\ [][NextJobs]_vars

InitExtract ==
    /\ SvcIdle
    /\ JobsInit(<< >>)
    /\ \E members \in SeqsUpTo(Members, MaxMembers) :
         \E filter \in Filters : ExtractInit(members, filter)
    /\ AuxIdle

NextExtract == ExtractMember \/ ExtractEnd

SpecExtract == InitExtract /\ [][NextExtract]_vars

InitAssign ==
    /\ SvcIdle
    /\ JobsInit(<< >>)
    /\ \E members \in SeqsUpTo(Members, MaxAssignMembers) :
         \E filter \in Filters : TarClosed(members, filter)
    /\ \E p \in Priors : AssignInit(p)
    /\ \E data \in ConfigData : config_exclude_globs = PublishConfig_exclude_globs(data)
    /\ PollIdle /\ DiscIdle /\ PureIdle

NextAssign ==
    \/ AssignClean
    \/ AssignDispatch
    \/ ExtractMember
    \/ ExtractEnd
    \/ AssignReturn
    \/ AssignCleanup

SpecAssign == InitAssign /\ [][NextAssign]_vars

\* one job polls the export task it started
InitPoll ==
    /\ ThreadsInit({}, Limits(MaxPollClock, 0, 0))
    /\ RateLimiterInit /\ ApiInit
    /\ \E student \in {s \in Students : s.has_id} : PollingJob(student)
    /\ ExtractInit(<< >>, "fully_trusted")
    /\ AssignIdle /\ DiscIdle /\ PureIdle
    /\ PollInit

NextPoll ==
    \/ PollTest
    \/ PollRequest
    \/ PollExamine
    \/ PollSleep
    \/ PollJobFails
    \/ PollJobGoesOn

SpecPoll == InitPoll /\ [][NextPoll]_vars

\* the discovery loop runs over one or more configured sections
InitDiscover ==
    /\ SvcIdle
    /\ JobsInit(<< >>)
    /\ ExtractInit(<< >>, "fully_trusted")
    /\ AssignIdle /\ PollIdle /\ PureIdle
    /\ \E n \in 1..MaxSections : DiscInit(SubSeq(SectionConfig, 1, n))

NextDiscover ==
    \/ DiscoverCourse
    \/ DiscoverAssignment
    \/ DiscoverStudents

SpecDiscover == InitDiscover /\ [][NextDiscover]_vars

\* parse_display_name applied to a name
InitName ==
    /\ SvcIdle
    /\ JobsInit(<< >>)
    /\ ExtractInit(<< >>, "fully_trusted")
    /\ AssignIdle /\ PollIdle /\ DiscIdle
    /\ \E name \in SeqsUpTo(NameTokens, MaxNameTokens) : NameInit(name)

NextName == ParseName

SpecName == InitName /\ [][NextName]_vars

\* find_entry_page applied to a project directory
InitFind ==
    /\ SvcIdle
    /\ JobsInit(<< >>)
    /\ ExtractInit(<< >>, "fully_trusted")
    /\ AssignIdle /\ PollIdle /\ DiscIdle
    /\ \E files \in SUBSET TreeFiles : \E order \in Listings :
         IsTree(files) /\ FindInit(files, order)

NextFind == FindEntryPage

SpecFind == InitFind /\ [][NextFind]_vars

\* two students of a run, in one section or in two
InitPaths ==
    /\ SvcIdle
    /\ JobsInit(<< >>)
    /\ ExtractInit(<< >>, "fully_trusted")
    /\ AssignIdle /\ PollIdle /\ DiscIdle
    /\ \E s1, s2 \in SectionNames : \E n1, n2 \in StudentNames :
         \E u1, u2 \in UserNames :
           /\ u1 # u2 \/ u1 = << >>
           /\ PathsInit(<< [section |-> s1,
                            student |-> [id |-> 1, name |-> n1, username |-> u1]],
                           [section |-> s2,
                            student |-> [id |-> 2, name |-> n2, username |-> u2]] >>)

NextPaths == JobPaths

SpecPaths == InitPaths /\ [][NextPaths]_vars

\* ------------------------------------------------------------------------
\* the rate limiter
\* ------------------------------------------------------------------------
\* C1: with one caller issuing calls one after another, whenever a call has
\* recorded its timestamp, the recorded timestamps in the closed trailing
\* window [now - window, now] number at most burst_limit.
C1_BurstNeverExceeded ==
    Len(InWindow(dispatched, clock)) <= BURST_RATE_LIMIT

\* the threads between the check of the window (line 108) and the record
\* (line 122)
Deciding ==
    { t \in active : pc[t] \in {"rl_check", "rl_wait", "rl_burst_sleep",
                                "rl_prune2", "rl_pop2", "rl_record"} }

\* C2: with several callers on one RateLimiter, at most one caller at a time
\* is between the check of the window and the recording of its call, and the
\* timestamps recorded strictly inside one trailing window number at most
\* burst_limit.
C2_NoStaleWindowOverrun ==
    /\ Cardinality(Deciding) <= 1
    /\ Len(SelectSeq(dispatched, LAMBDA x : x > clock - BURST_WINDOW)) <= BURST_RATE_LIMIT

\* C3 as stated: daily_count never exceeds daily_limit, and every change of
\* the reset instant sets the counter to 0 and moves the instant forward by
\* exactly 24h.
C3_ResetAdvancesByOneDay ==
    [][/\ daily_count' <= DAILY_LIMIT
       /\ daily_reset_time' # daily_reset_time =>
            /\ daily_count' = 0
            /\ daily_reset_time' = daily_reset_time + DAY]_vars

\* C3: with one caller, daily_count never exceeds daily_limit; the reset
\* instant changes only once it has been reached, the change sets the counter
\* to 0 and the instant to 24h after the time of the change (line 88: now +
\* 86400, line 100: time.time() + 86400), one reset per change; and when the
\* daily limit is evaluated the instant lies after the time the call read.
C3_ResetOncePerCrossing ==
    [][/\ daily_count' <= DAILY_LIMIT
       /\ daily_reset_time' # daily_reset_time =>
            /\ clock >= daily_reset_time
            /\ daily_count' = 0
            /\ daily_reset_time' = clock + DAY
            /\ resets' = resets + 1
       /\ resets' # resets => daily_reset_time' # daily_reset_time
       /\ \A t \in active : pc'[t] = "rl_daily" => now'[t] < daily_reset_time']_vars

\* a reset made after the instant had passed (the new instant lies more than
\* 24h after the old one), and a call recorded since
C3_Witness ==
    /\ resets >= 1
    /\ daily_reset_time > DAY + DAY
    /\ daily_count >= 1

\* ------------------------------------------------------------------------
\* the API client
\* ------------------------------------------------------------------------
\* C4: no HTTP call is sent at or after the stored token_expiry.
C4_NeverSentAfterExpiry == ~lateUse

\* C5: when an attempt of request() reaches its HTTP call, it has invoked
\* authenticate() exactly once if its freshness check observed
\* now >= token_expiry, and not at all if it observed a fresh credential.
C5_OneReauthPerExpiredAttempt ==
    \A t \in active :
        pc[t] = "req_send" =>
            loc[t].authInv = (IF loc[t].sawExpired THEN 1 ELSE 0)

\* an attempt that observed the expiry stands before its HTTP call, while a
\* later clock shows the credential it refreshed
C5_Witness ==
    \E t \in active :
        /\ pc[t] = "req_send"
        /\ loc[t].sawExpired
        /\ loc[t].authInv = 1
        /\ access_token > 1

\* the threads inside authenticate()
Authenticating ==
    { t \in active : pc[t] \in {"auth_get", "auth_backoff", "auth_store_token",
                                "auth_store_expiry"} }

\* C6: with several threads on one CodioAPI, at most one thread at a time is
\* inside authenticate(), and whenever a thread is about to read the
\* credential, access_token and token_expiry were stored by the same
\* exchange.
C6_SingleCredentialView ==
    /\ Cardinality(Authenticating) <= 1
    /\ (\E t \in active : pc[t] \in {"req_ensure", "req_send", "req_resend"})
           => expiry_src = access_token

\* ------------------------------------------------------------------------
\* the orchestrator
\* ------------------------------------------------------------------------
\* the entries of list that belong to job i
EntriesOf(list, i) == { k \in 1..Len(list) : list[k].job = i }

IsFailedEntry(r) ==
    /\ "errors" \in DOMAIN r
    /\ Len(r.errors) > 0
    /\ r.local_path = NULL
    /\ r.entry_page = NULL

IsSuccessEntry(r) ==
    /\ "errors" \notin DOMAIN r
    /\ r.local_path # NULL

C8_OneResultPerJob ==
    /\ \A i \in Jobs : Cardinality(EntriesOf(results, i)) <= 1
    /\ mainpc = "written" =>
         \A i \in Jobs : Cardinality(EntriesOf(manifest, i)) = 1

\* ------------------------------------------------------------------------
\* the extractor
\* ------------------------------------------------------------------------
\* C9: extraction never writes a path outside dest_dir; a member whose
\* resolved path lies outside dest_dir is warned about and not extracted, and
\* the loop never aborts.
C9_NothingOutsideDest ==
    /\ \A p \in written : IsPrefix(Dest, p)
    /\ \A k \in 1..Len(rpath) :
         ~IsPrefix(Dest, rpath[k]) => k \in warned /\ k \notin extracted
    /\ expc # "raised"
    /\ mi = Len(rpath) + 1

\* C10: the loop never aborts, and when it is over every member whose own
\* extraction did not raise, whose path resolved inside dest_dir and which is
\* not excluded has been extracted (a regular file stands at its path),
\* wherever in the archive a failing member stood.
C10_OthersStillExtracted ==
    /\ expc # "raised"
    /\ expc = "done" =>
         \A k \in 1..Len(archive) :
             (k \notin failed /\ IsPrefix(Dest, rpath[k])
                 /\ ~ShouldExclude(archive[k].name)) =>
                 /\ k \in extracted
                 /\ archive[k].kind = "file" => rpath[k] \in written

\* the loop is over; a corrupt member failed, a member before it and a member
\* after it are extracted
C10_Witness ==
    /\ expc = "done"
    /\ \E f \in failed :
         /\ archive[f].corrupt
         /\ \E a, b \in extracted : a < f /\ f < b

\* C11: when _extract_assignment has returned, none of the files dest_dir
\* held before the call is left in it, and none is left once the tar is
\* being extracted.
C11_CleanReplace ==
    eapc \in {"extract", "returned"} => stale = {}

\* the call has returned; dest_dir held files before, the archive wrote one
\* of them anew and not the other
C11_Witness ==
    /\ eapc = "returned"
    /\ prior.files \cap written # {}
    /\ prior.files \ written # {}

\* ------------------------------------------------------------------------
\* request(): gating, 401, 429, attempts
\* ------------------------------------------------------------------------
\* C12: within every attempt of request(), the HTTP calls sent never
\* outnumber the calls of wait_if_needed() that attempt has had recorded:
\* every send, the re-send after a 401 included, has a rate-limiter call of
\* its own before it.
C12_SendsNeverExceedWaits ==
    \A t \in active : loc[t].nsend <= loc[t].nwait

\* the pcs of an attempt after its last HTTP call
AfterCalls == {"req_after", "req_429_sleep", "req_failed", "req_backoff"}

C14_SleepsThenRetriesWhole ==
    [][\A t \in active :
         /\ (pc[t] = "req_after" /\ loc[t].status = 429 /\ pc'[t] # pc[t]) =>
              /\ pc'[t] = "req_429_sleep"
              /\ wake'[t] = clock + RetryAfterSeconds(loc[t].retry_after)
         /\ (pc[t] = "req_429_sleep" /\ pc'[t] # pc[t]) =>
              (clock >= wake[t] /\ pc'[t] = "req_failed")
         /\ (pc[t] = "req_backoff" /\ pc'[t] # pc[t]) =>
              /\ pc'[t] = "req_ensure"
              /\ loc'[t].nwait = 0
              /\ loc'[t].nsend = 0]_vars

\* the limits of the specification are used up: the clock stands at its last
\* value, or no further exchange can succeed or fail
Horizon ==
    \/ clock = bound.time
    \/ (nexch = MaxExchanges /\ faults = bound.faults)

PollEnded == ppc \in {"returned", "raised"}

\* C16 as stated: _wait_download_task(task, max_wait) ends, whether by
\* returning the URL, by raising the task's error or by raising a timeout, no
\* later than max_wait after it started, whatever the delays inside the
\* individual polls.  The code tests the deadline only before a poll, so a
\* poll started just before the deadline ends after it.
C16_EndsWithinMaxWait ==
    PollEnded => clock - start_time <= MAX_WAIT

\* the class of the exception a polling run ended with (lines 298, 302; the
\* missing 'url' key of line 299; what request() raised)
ExceptionClass(outcome) ==
    CASE outcome = "timeout" -> "TimeoutError"
      [] outcome = "task_error" -> "RuntimeError"
      [] outcome = "key_error" -> "KeyError"
      [] outcome = "request_error" -> "RetryError"
      [] OTHER -> "none"

\* C17: a URL is returned only from a poll answered done and without error;
\* an answer done with an error ends the polling at once (the next step
\* raises, no further poll is made), the job is not attempted again and its
\* entry is a failed one; a timeout is raised only once max_wait has passed
\* and its exception class differs from that of the task's own failure.
C17_TaskErrorIsPermanent ==
    /\ [](poll_outcome = "url" => poll_result.done /\ ~poll_result.error)
    /\ [](poll_outcome = "task_error" =>
            /\ poll_result.done /\ poll_result.error
            /\ jtry[1] = 1
            /\ jpc[1] \in {"downloading", "failed"}
            /\ jpc[1] = "failed" => IsFailedEntry(jres[1]))
    /\ [](poll_outcome = "timeout" =>
            /\ clock - start_time >= MAX_WAIT
            /\ ExceptionClass(poll_outcome) # ExceptionClass("task_error"))
    /\ [][ppc = "examine" /\ poll_result.done /\ poll_result.error /\ ppc' # ppc =>
            ppc' = "raised" /\ poll_outcome' = "task_error"]_vars
    /\ [][PollEnded => UNCHANGED <<ppc, npolls, poll_outcome, jtry>>]_vars

\* after a pending poll, the task reported an error and the job was recorded
\* as failed
C17_Witness ==
    /\ poll_outcome = "task_error"
    /\ npolls >= 2
    /\ jpc[1] = "failed"
    /\ IsFailedEntry(jres[1])

\* ------------------------------------------------------------------------
\* the life of a student job
\* ------------------------------------------------------------------------
\* the state of job i in the terms pending, downloading, extracting,
\* completed, failed: the function is downloading from its first statement
\* to the end of _download_file, extracting from _extract_assignment to its
\* return statement; "raised" is an exception leaving the function
Phase(i) ==
    CASE jpc[i] = "preamble" -> "downloading"
      [] jpc[i] = "finding" -> "extracting"
      [] OTHER -> jpc[i]

\* the moves of pending -> downloading -> extracting -> completed | failed
PhaseMoves ==
    { <<"pending", "downloading">>, <<"downloading", "extracting">>,
      <<"downloading", "failed">>, <<"extracting", "completed">>,
      <<"extracting", "failed">> }

\* download_student_project has returned or raised for job i
JobEnded(i) == jpc[i] \in {"completed", "failed", "raised"}

\* C18 as stated: every job moves only along pending -> downloading ->
\* extracting -> completed or failed, completed and failed are terminal, and
\* every started job ends in one of the two.  A job whose student record has
\* no 'id' raises before the try block and ends in neither.
C18_JobStateMachine ==
    /\ [][\A i \in Jobs :
            /\ Phase(i)' # Phase(i) => <<Phase(i), Phase(i)'>> \in PhaseMoves
            /\ Phase(i) \in {"completed", "failed"} => jpc'[i] = jpc[i]]_vars
    /\ [](\A i \in Jobs : JobEnded(i) => Phase(i) \in {"completed", "failed"})

\* C19 as stated: a job is recorded as failed only after the job-level retry
\* has attempted the download-and-extract step JOB_ATTEMPTS times.  The
\* except branch returns the failed dict, so the first failure is the last.
C19_FailedAfterAllAttempts ==
    \A i \in Jobs : jpc[i] = "failed" => jtry[i] = JOB_ATTEMPTS

\* ------------------------------------------------------------------------
\* discovery of the sections
\* ------------------------------------------------------------------------
\* two names are equal but for the case of their letters
SameIgnoringCase(x, y) ==
    /\ Len(x) = Len(y)
    /\ \A k \in DOMAIN x :
         x[k] = y[k] \/ {x[k], y[k]} \in { {"a", "A"}, {"b", "B"} }

\* the course has an assignment of the configured name
HasAssignment(c) ==
    \E k \in DOMAIN c.assignments : SameIgnoringCase(c.assignments[k], assignment_name)

\* the queued tasks of the k-th section
TasksOf(k) == { i \in Jobs : all_tasks[i].section = sections[k].section }

\* C20: a section whose course fetch failed, or whose course has no
\* assignment of the configured name (compared without case), has no task
\* queued, and the loop still goes through every configured section; a
\* section whose course was fetched and has such an assignment gets its
\* students asked for, and each student of the roster returned is queued
\* exactly once, with an assignment of that course whose name matches and
\* with the section's course id.
C20_FailedSectionSkippedOthersQueued ==
    /\ Len(dlog) = IF dpc = "done" THEN Len(sections) ELSE dsec - 1
    /\ \A k \in DOMAIN dlog :
         /\ ~dlog[k].fetched \/ ~HasAssignment(dlog[k].course) => TasksOf(k) = {}
         /\ dlog[k].fetched /\ dlog[k].course.named /\ HasAssignment(dlog[k].course)
              => dlog[k].found # 0
         /\ dlog[k].listed =>
              /\ Cardinality(TasksOf(k)) = Len(dlog[k].roster)
              /\ \A j \in DOMAIN dlog[k].roster :
                   \E i \in TasksOf(k) :
                     /\ all_tasks[i].name = dlog[k].roster[j].name
                     /\ all_tasks[i].id = dlog[k].roster[j].id
                     /\ all_tasks[i].course_id = sections[k].course_id
                     /\ all_tasks[i].assignment_id \in DOMAIN dlog[k].course.assignments
                     /\ SameIgnoringCase(
                          dlog[k].course.assignments[all_tasks[i].assignment_id],
                          assignment_name)
                     /\ \A h \in TasksOf(k) :
                          all_tasks[h].name = all_tasks[i].name => h = i

\* the first section's course fetch failed; the second section's assignment
\* differs from the configured name in case only, and its two students are
\* queued
C20_Witness ==
    /\ dpc = "done"
    /\ Len(sections) = 2
    /\ ~dlog[1].fetched
    /\ dlog[2].listed
    /\ Len(dlog[2].roster) = 2
    /\ dlog[2].course.assignments[dlog[2].found] # assignment_name
    /\ Cardinality(TasksOf(2)) = 2
    /\ TasksOf(1) = {}

\* ------------------------------------------------------------------------
\* wait_if_needed never fails
\* ------------------------------------------------------------------------
\* C21 as stated: with any number of concurrent callers, no call of
\* wait_if_needed() raises; it only delays.  Two callers that both see one
\* old timestamp at the head of the deque both go on to popleft(), and the
\* second pops an empty deque.
C21_WaitNeverRaises ==
    \A t \in Workers : pc[t] # "rl_raised"

\* ------------------------------------------------------------------------
\* authenticate() and its three attempts
\* ------------------------------------------------------------------------
\* C22 as stated: once authenticate() has failed all its exchanges, its
\* caller is aborted and does not go on with the old credential: the
\* request() call whose authenticate() raised sends no HTTP call unless a
\* later authenticate() of it succeeded.  The retry layer of request() starts
\* a new attempt, and after a 401 that attempt finds the old token fresh by
\* the clock and sends it again.
C22_FailedAuthSendsNothing ==
    [][\A t \in active :
         loc[t].authRaised => loc'[t].nsend # loc[t].nsend + 1]_vars

\* C22, amended: one authenticate() makes at most AUTH_ATTEMPTS exchanges; a
\* successful exchange is stored (the token, the expiry at now + TOKEN_LIFE)
\* and authenticate() returns to its call site with no further exchange;
\* the last failed exchange leaves the credential as it was and ends the
\* attempt of request() that called authenticate(), which sends nothing
\* more; an attempt stands before an HTTP call only if each authenticate()
\* it invoked succeeded.
C22_FailedAuthAbortsAttempt ==
    /\ [](\A t \in active :
            /\ loc[t].authTry <= AUTH_ATTEMPTS
            /\ (pc[t] \in {"req_send", "req_resend"} /\ loc[t].authInv >= 1) =>
                 loc[t].tok # 0)
    /\ [][\A t \in active :
            /\ (pc[t] = "auth_get" /\ pc'[t] = "req_failed") =>
                 /\ loc[t].authTry = AUTH_ATTEMPTS
                 /\ loc'[t].authRaised
                 /\ UNCHANGED <<access_token, token_expiry, nexch>>
            /\ (pc[t] = "auth_get" /\ pc'[t] = "auth_store_token") =>
                 /\ nexch' = nexch + 1
                 /\ loc'[t].authTry = loc[t].authTry
            /\ (pc[t] = "auth_store_token" /\ pc'[t] # pc[t]) =>
                 /\ access_token' = loc[t].tok
                 /\ pc'[t] = "auth_store_expiry"
            /\ (pc[t] = "auth_store_expiry" /\ pc'[t] # pc[t]) =>
                 /\ token_expiry' = clock + TOKEN_LIFE
                 /\ pc'[t] = loc[t].authRet
                 /\ nexch' = nexch
            /\ (pc[t] = "req_failed" /\ loc[t].authRaised /\ pc'[t] # pc[t]) =>
                 /\ pc'[t] \in {"req_backoff", "idle"}
                 /\ loc'[t].nsend <= loc[t].nsend]_vars

\* after a 401, authenticate() failed three times and the attempt ended
\* with the credential of the constructor still in place
C22_Witness ==
    \E t \in active :
        /\ pc[t] = "req_backoff"
        /\ loc[t].authRaised
        /\ loc[t].authTry = AUTH_ATTEMPTS
        /\ loc[t].nsend = 1
        /\ loc[t].status = 401
        /\ access_token = 1

\* ------------------------------------------------------------------------
\* dry-run mode
\* ------------------------------------------------------------------------
\* C23: a client constructed in dry-run mode has made no credential
\* exchange, and whatever requests it is given, every one returns {} (None
\* when streaming) at once: no thread ever stands inside request(), no HTTP
\* call is sent, access_token and token_expiry stay as the constructor left
\* them, and the rate limiter's window, daily counter and reset instant are
\* untouched.
C23_DryRunTouchesNothing ==
    dry_run =>
        /\ nexch = 0
        /\ access_token = 0
        /\ token_expiry = 0
        /\ expiry_src = 0
        /\ request_times = << >>
        /\ dispatched = << >>
        /\ daily_count = 0
        /\ daily_reset_time = DAY
        /\ resets = 0
        /\ ~lateUse
        /\ \A t \in active :
             /\ pc[t] = "idle"
             /\ loc[t].nsend = 0
             /\ loc[t].nwait = 0
             /\ loc[t].authInv = 0
             /\ loc[t].result \in {"none", DryResult(loc[t].stream)}
             /\ loc[t].result # "none" =>
                  loc[t].result = (IF loc[t].stream THEN "None" ELSE "{}")

\* a dry-run client has answered several requests, the last one a streaming
\* one, long after token_expiry = 0
C23_Witness ==
    /\ dry_run
    /\ nreqs = MaxReqsDry
    /\ clock >= 1
    /\ loc["w1"].stream
    /\ loc["w1"].result = "None"

\* ------------------------------------------------------------------------
\* a project without an entry page
\* ------------------------------------------------------------------------
\* the entry of a success with a warning
IsWarnedEntry(r) ==
    /\ IsSuccessEntry(r)
    /\ Len(r.warnings) > 0
    /\ r.entry_page = NULL

\* C24 as stated: every job whose extraction returned and whose tree has no
\* entry page is a success with a warning.  When find_entry_page or
\* relative_to raises on such a tree, the job is a failure.
C24_NoPageIsSuccess ==
    \A i \in nopage : jpc[i] = "completed" /\ IsWarnedEntry(jres[i])

\* C24, amended: a job whose tree has no entry page and in which nothing
\* raised after the extraction is completed, with a non-empty warnings list,
\* no errors field, a populated local_path and a null entry_page, and that is
\* its entry in the manifest; such a job is a failure only through an
\* exception of the steps after the extraction.
C24_NoPageAloneIsWarning ==
    \A i \in nopage :
        /\ raisedIn[i] = "none" =>
             /\ jpc[i] = "completed"
             /\ IsWarnedEntry(jres[i])
             /\ mainpc = "written" =>
                  /\ EntriesOf(manifest, i) # {}
                  /\ \A k \in EntriesOf(manifest, i) : IsWarnedEntry(manifest[k])
        /\ raisedIn[i] # "none" =>
             /\ raisedIn[i] = "entry"
             /\ jpc[i] = "failed"
             /\ IsFailedEntry(jres[i])

\* the manifest lists a job without entry page as a success with a warning
C24_Witness ==
    /\ mainpc = "written"
    /\ \E i \in nopage :
         /\ raisedIn[i] = "none"
         /\ \E k \in EntriesOf(manifest, i) :
              /\ IsWarnedEntry(manifest[k])
              /\ manifest[k].local_path = all_tasks[i].dir

\* ------------------------------------------------------------------------
\* the archive files of a job
\* ------------------------------------------------------------------------
\* C25 as stated: once download_student_assignment has finished, by return
\* or by raise, neither temp_file (.zst) nor the decompressed tar_file is on
\* disk.  The two unlink() calls follow the extraction in straight line, so
\* an exception of the decompression, of tarfile.open or of the suffix check
\* leaves the files where they are.
C25_NoArchiveLeftBehind ==
    eapc \in {"finished", "raised"} => ~temp_file /\ ~tar_file

\* ------------------------------------------------------------------------
\* display names
\* ------------------------------------------------------------------------
\* the words of a name, in order
WordsOf(name) == SelectSeq(name, LAMBDA tok : tok # SP)

\* the name without the white space around it
Trimmed(name) ==
    LET at == { k \in DOMAIN name : name[k] # SP }
    IN  IF at = {} THEN << >>
        ELSE SubSeq(name, CHOOSE k \in at : \A j \in at : k <= j,
                          CHOOSE k \in at : \A j \in at : k >= j)

\* the alias of a word, or the word
AliasOf(word) ==
    CASE word = Jonathan -> Julian
      [] word = Shiyang -> April
      [] OTHER -> word

\* C26: for every name of at least one word: a full name of the override
\* table gives the override; otherwise a name of one word gives the alias of
\* the word, or the word; otherwise the name gives the alias of its first
\* word (or the word), a blank and the upper-cased first character of its
\* last word.
C26_DisplayNamePrecedence ==
    (fpc = "done" /\ WordsOf(full_name) # << >>) =>
        LET words == WordsOf(full_name)
            initial == words[Len(words)][1]
        IN  IF Trimmed(full_name) \in { << Michael, SP, Holland >>, << Michael, SP, H >> }
              THEN display_name = << Micky, SP, << "H" >> >>
            ELSE IF Len(words) = 1
              THEN display_name = << AliasOf(words[1]) >>
            ELSE /\ display_name = << AliasOf(words[1]), SP, << UpperChar(initial) >> >>
                 /\ initial = "l" => display_name[3] = << "L" >>

\* "Jonathan Smith" has given "Julian S"
C26_Witness ==
    /\ fpc = "done"
    /\ full_name = << Jonathan, SP, Smith >>
    /\ display_name = << Julian, SP, << "S" >> >>

\* ------------------------------------------------------------------------
\* the entry page of a project
\* ------------------------------------------------------------------------
\* the files a search could return: an index name at most two directories
\* down, or a fallback name at the root
Candidates(files) ==
    { f \in files :
        \/ Len(f) <= 3 /\ \E k \in DOMAIN patterns : f[Len(f)] = patterns[k]
        \/ Len(f) = 1 /\ \E k \in DOMAIN fallback_patterns : f[1] = fallback_patterns[k] }

\* C27: on a project whose only candidate is <subdir>/index.html, with a
\* subdirectory name that does not start with a dot, the search returns
\* (<subdir>, index.html); on a project without any candidate it returns no
\* match.
C27_OnlySubdirIndexIsFound ==
    fpc = "found" =>
        /\ \A d \in {"a", "b"} :
             Candidates(project_dir) = { << d, "index.html" >> } =>
                 /\ entry_page_result.found
                 /\ entry_page_result.path = << d >>
                 /\ entry_page_result.file = "index.html"
        /\ Candidates(project_dir) = {} => ~entry_page_result.found

\* b/index.html is the only candidate, beside a directory named index.html
\* and a page home.html that is not at the root
C27_Witness ==
    /\ fpc = "found"
    /\ project_dir = { << "b", "index.html" >>, << "index.html", "keep" >>,
                       << "a", "home.html" >> }
    /\ entry_page_result = [found |-> TRUE, path |-> << "b" >>, file |-> "index.html"]

\* the index files of a project at a depth, under directories that are
\* searched
IndexAt(files, depth) ==
    { f \in files :
        /\ Len(f) = depth + 1
        /\ \E k \in DOMAIN patterns : f[Len(f)] = patterns[k]
        /\ \A j \in 1..depth : ~StartsWithDot(f[j]) }

\* C28 as stated: the first level that has an index candidate gives the
\* result (the root, then one level down, then two levels down), a fallback
\* page at the root is returned only when no level has one, and the result
\* is the same for every order of listing.  The search goes through each
\* subdirectory and its own subdirectories before it looks at the next
\* subdirectory.
C28_LevelByLevel ==
    fpc = "found" =>
        /\ \A depth \in 0..2 :
             (IndexAt(project_dir, depth) # {} /\
              \A less \in 0..(depth - 1) : IndexAt(project_dir, less) = {}) =>
                 /\ entry_page_result.found
                 /\ Len(entry_page_result.path) = depth
                 /\ (entry_page_result.path \o << entry_page_result.file >>)
                        \in IndexAt(project_dir, depth)
        /\ (\A depth \in 0..2 : IndexAt(project_dir, depth) = {}) =>
             \/ ~entry_page_result.found
             \/ /\ entry_page_result.path = << >>
                /\ << entry_page_result.file >> \in project_dir
        /\ \A order \in Listings :
             find_entry_page(project_dir, order) = entry_page_result

\* ------------------------------------------------------------------------
\* what an extraction leaves in dest_dir
\* ------------------------------------------------------------------------
\* a pattern occurs in the name, at its start or further on
MatchesExclusion(name) ==
    \E k \in 1..Len(name) : name[k] \in {".git", ".guides", ".codio"}

\* member k passed both checks
PassedBothChecks(k) ==
    IsPrefix(Dest, rpath[k]) /\ ~MatchesExclusion(archive[k].name)

\* C29 as stated: when the loop is over a member is materialized if and only
\* if it passed both checks, and an excluded member gave no warning.  A
\* member that passed both checks and whose tar.extract raised is not in
\* dest_dir.
C29_MaterializedIffPassed ==
    /\ expc # "raised"
    /\ expc = "done" =>
         \A k \in 1..Len(archive) :
             /\ k \in extracted <=> PassedBothChecks(k)
             /\ (IsPrefix(Dest, rpath[k]) /\ MatchesExclusion(archive[k].name)) =>
                    k \notin warned

\* C29: the loop never aborts; when it is over a member is materialized if
\* and only if its resolved path lay in dest_dir, its name matched no
\* exclusion pattern and its own tar.extract did not raise; every file in
\* dest_dir stands where a materialized member resolved; a member skipped by
\* the exclusion check gave no warning.
C29_MaterializedIffPassedAndExtracted ==
    /\ expc # "raised"
    /\ expc = "done" =>
         /\ \A k \in 1..Len(archive) :
              /\ k \in extracted <=> (PassedBothChecks(k) /\ k \notin failed)
              /\ (IsPrefix(Dest, rpath[k]) /\ MatchesExclusion(archive[k].name)) =>
                     k \notin warned \cup failed
         /\ \A p \in written :
              IsPrefix(Dest, p) => \E k \in extracted : rpath[k] = p

\* the loop is over: one member is in dest_dir, one was excluded by a pattern
\* inside its name, one lay outside dest_dir
C29_Witness ==
    /\ expc = "done"
    /\ \E a, b, c \in 1..Len(archive) :
         /\ a \in extracted /\ rpath[a] \in written
         /\ archive[b].name = << "my", ".git", "hub" >> /\ b \notin extracted \cup warned
         /\ c \in warned /\ ~IsPrefix(Dest, rpath[c])

\* ------------------------------------------------------------------------
\* the exclusion patterns of a run
\* ------------------------------------------------------------------------
\* C30 as stated: once the archive of a job is being extracted, the patterns
\* applied are the ones of the configuration, and a member that resolved in
\* dest_dir is skipped by the exclusion check exactly when its name holds a
\* configured pattern.  _extract_assignment calls the extractor without the
\* patterns, so the default set is applied whatever the configuration says.
C30_ConfiguredPatternsApplied ==
    eapc \in {"extract", "returned", "finished"} =>
        /\ exclude_globs = config_exclude_globs
        /\ \A k \in 1..Len(rpath) :
             (IsPrefix(Dest, rpath[k]) /\ k \notin failed) =>
                 (k \notin extracted <=>
                     \E pattern \in config_exclude_globs :
                         \E j \in 1..Len(archive[k].name) : archive[k].name[j] = pattern)

\* ------------------------------------------------------------------------
\* who writes the credential
\* ------------------------------------------------------------------------
\* thread t is in authenticate(), after an exchange that succeeded
Storing(t) == pc[t] \in {"auth_store_token", "auth_store_expiry"}

\* C31: with one caller or several, access_token and token_expiry are
\* written only by a thread that is in authenticate() after an exchange that
\* succeeded, and that thread writes both before its authenticate() returns:
\* access_token becomes the token of its exchange, token_expiry is set next,
\* from the clock, and only then does the thread leave.  A failed exchange,
\* the waits of the rate limiter, sending a call, the handling of a 429
\* answer, the backoff of a retry and the passing of time leave both as they
\* are.
C31_CredentialWrittenByAuthOnly ==
    [][/\ (access_token' # access_token) =>
            \E t \in active :
                /\ pc[t] = "auth_store_token" /\ pc'[t] = "auth_store_expiry"
                /\ access_token' = loc[t].tok
                /\ UNCHANGED token_expiry
       /\ (token_expiry' # token_expiry \/ expiry_src' # expiry_src) =>
            \E t \in active :
                /\ pc[t] = "auth_store_expiry" /\ pc'[t] = loc[t].authRet
                /\ token_expiry' = clock + TOKEN_LIFE
                /\ expiry_src' = loc[t].tok
                /\ UNCHANGED access_token
       /\ \A t \in active :
            /\ (~Storing(t) /\ Storing(t)') =>
                 /\ pc[t] = "auth_get" /\ pc'[t] = "auth_store_token"
                 /\ nexch' = nexch + 1 /\ loc'[t].tok = nexch'
            /\ (pc[t] = "auth_store_token" /\ pc'[t] # pc[t]) =>
                 /\ pc'[t] = "auth_store_expiry"
                 /\ access_token' = loc[t].tok
            /\ (Storing(t) /\ ~Storing(t)') =>
                 /\ pc[t] = "auth_store_expiry"
                 /\ expiry_src' = loc[t].tok
            /\ (pc[t] = "auth_get" /\ pc'[t] \in {"auth_backoff", "req_failed"}) =>
                 UNCHANGED <<access_token, token_expiry, expiry_src>>
      ]_vars

\* a request has been answered after a 401: authenticate() failed once and
\* then succeeded, the credential is the pair of the second exchange
C31_Witness ==
    \E t \in active :
        /\ pc[t] = "req_after"
        /\ loc[t].nsend = 2
        /\ loc[t].authTry = 2
        /\ loc[t].tok = 2
        /\ access_token = 2
        /\ expiry_src = 2
        /\ token_expiry > TOKEN_LIFE

\* ------------------------------------------------------------------------
\* the files of two jobs
\* ------------------------------------------------------------------------
\* the three paths job i works on
PathSet(i) ==
    { job_paths[i].student_dir, job_paths[i].temp_file, job_paths[i].tar_file }

\* C32 as stated: for two distinct enqueued students the student
\* directories, the temporary archives and the intermediate tars are
\* pairwise distinct.  Two user names that differ after their last dot only,
\* or in characters that sanitize_name maps or drops, give the same paths.
C32_JobsShareNoPath ==
    fpc = "planned" =>
        \A i, j \in DOMAIN job_paths :
            (i # j /\ enqueued[i].student.id # enqueued[j].student.id) =>
                /\ Cardinality(PathSet(i)) = 3
                /\ PathSet(i) \cap PathSet(j) = {}

====
